---------------------------- MODULE Spec2Model ----------------------------
(***************************************************************************)
(* BSE scraper: the identity-keyed upsert of IssuesCompactDBPipeline       *)
(* (pipelines_compact_r2.py) against the issues table (create_table.py),   *)
(* the postback pagination crawl of BseIPOProcessStatusSpider              *)
(* (spiders/bse_ipo_process_status.py), and its row parser, form builder   *)
(* and the file key of R2FilesPipeline.file_path each called on their own. *)
(*                                                                         *)
(* Values.  An Optional value is a tuple: None is <<>> and Some(x) is      *)
(* <<x>>.  Text that the code parses is a sequence of one-token strings;   *)
(* text it only compares is a string.  A float is an integer count of      *)
(* tenths.  A dict is a set of <<key, value>> pairs.                       *)
(***************************************************************************)
EXTENDS Integers, Sequences, FiniteSets, TLC

VARIABLES
    issues,             \* the committed rows of table "issues"
    nextId,             \* next value of the SERIAL sequence behind issues.id
    sess,               \* per pipeline process: the open Session of process_item
    calls,              \* process_item calls begun so far
    log,                \* completed process_item calls: item, outcome, row left
    r2_public_baseurl,  \* IssuesCompactDBPipeline.r2_public_baseurl (after rstrip)
    site,               \* the portal: what each of the four sections serves
    pending,            \* requests scheduled and not yet answered
    emitted,            \* row items the spider has yielded
    issued,             \* every postback request yielded, with its issuer
    handled,            \* every section of every response a callback has handled
    seen,               \* the "seen" set of the Next-chain of each section
    fallback,           \* the attribute self._fallback_table_chosen
    pagerIn,            \* an anchor list handed to _extract_pager
    pagerOut,           \* what _extract_pager returned for it
    tableIn,            \* a table handed to _parse_table
    tableOut,           \* the row items _parse_table yielded for it
    fileIn,             \* two media requests handed to file_path
    fileOut,            \* the paths file_path returned for them
    formIn,             \* a response handed to _make_postback_request
    formOut             \* the request _make_postback_request built from it

dbVars == <<issues, nextId, sess, calls, log, r2_public_baseurl>>
crawlVars == <<site, pending, emitted, issued, handled, seen, fallback>>
pagerVars == <<pagerIn, pagerOut>>
probeVars == <<tableIn, tableOut, fileIn, fileOut, formIn, formOut>>

vars == <<dbVars, crawlVars, pagerVars, probeVars>>

None == <<>>
Some(x) == <<x>>

\* Bound: number of process_item calls in one run of the model.
MaxCalls == 3

-----------------------------------------------------------------------------
(* Generic sequence helpers *)

RECURSIVE FilterSeq(_, _)
FilterSeq(s, keep) ==
    IF s = <<>> THEN <<>>
    ELSE IF Head(s) \in keep THEN <<Head(s)>> \o FilterSeq(Tail(s), keep)
         ELSE FilterSeq(Tail(s), keep)

Range(s) == {s[i] : i \in 1..Len(s)}

-----------------------------------------------------------------------------
(* to_iso_date: a date string is a sequence of tokens *)

YearTok == {"2024"}
MonthTok == {"01"}
DayTok == {"05", "09"}
MonthAbbr == {"Jan"}
MonthFull == {"January"}
MonthNum(m) == IF m \in MonthAbbr \cup MonthFull THEN "01" ELSE m
SpaceTok == {" "}

\* str.strip(): leading and trailing whitespace tokens removed
RECURSIVE LStrip(_)
LStrip(s) == IF s # <<>> /\ Head(s) \in SpaceTok THEN LStrip(Tail(s)) ELSE s
RECURSIVE RStrip(_)
RStrip(s) ==
    IF s # <<>> /\ s[Len(s)] \in SpaceTok THEN RStrip(SubSeq(s, 1, Len(s) - 1)) ELSE s
Strip(s) == RStrip(LStrip(s))

\* one strptime format: three fields and two separators; the result is the
\* date <<year, month, day>> or None when the string does not match
StrpYMD(s, sep) ==
    IF Len(s) = 5 /\ s[1] \in YearTok /\ s[2] = sep /\ s[3] \in MonthTok
       /\ s[4] = sep /\ s[5] \in DayTok
    THEN Some(<<s[1], s[3], s[5]>>) ELSE None

StrpDMY(s, sep, months) ==
    IF Len(s) = 5 /\ s[1] \in DayTok /\ s[2] = sep /\ s[3] \in months
       /\ s[4] = sep /\ s[5] \in YearTok
    THEN Some(<<s[5], MonthNum(s[3]), s[1]>>) ELSE None

\* datetime.fromisoformat(s).date(): a date, optionally followed by a time
TimeTok == {"T00:00:00"}
FromIsoFormat(s) ==
    IF Len(s) = 6 /\ s[6] \in TimeTok THEN StrpYMD(SubSeq(s, 1, 5), "-")
    ELSE StrpYMD(s, "-")

to_iso_date(raw) ==
    IF raw = None \/ raw[1] = <<>> THEN None
    ELSE LET s == Strip(raw[1]) IN
         IF StrpYMD(s, "-") # None THEN StrpYMD(s, "-")
         ELSE IF StrpDMY(s, "-", MonthTok) # None THEN StrpDMY(s, "-", MonthTok)
         ELSE IF StrpDMY(s, "/", MonthTok) # None THEN StrpDMY(s, "/", MonthTok)
         ELSE IF StrpDMY(s, " ", MonthAbbr) # None THEN StrpDMY(s, " ", MonthAbbr)
         ELSE IF StrpDMY(s, " ", MonthAbbr \cup MonthFull) # None
              THEN StrpDMY(s, " ", MonthAbbr \cup MonthFull)
         ELSE FromIsoFormat(s)

-----------------------------------------------------------------------------
(* coerce_float: a price string is a sequence of one-character tokens; the  *)
(* float is counted in tenths                                              *)

Digit == {"0", "1", "2", "3", "4", "5", "6", "7", "8", "9"}
DigitVal(c) ==
    CASE c = "0" -> 0 [] c = "1" -> 1 [] c = "2" -> 2 [] c = "3" -> 3
      [] c = "4" -> 4 [] c = "5" -> 5 [] c = "6" -> 6 [] c = "7" -> 7
      [] c = "8" -> 8 [] c = "9" -> 9

RECURSIVE DigitsVal(_)
DigitsVal(s) ==
    IF s = <<>> THEN 0 ELSE DigitsVal(SubSeq(s, 1, Len(s) - 1)) * 10 + DigitVal(s[Len(s)])

DotPos(s) == {i \in 1..Len(s) : s[i] = "."}

\* float(t) of an unsigned body: digits with at most one ".", at least one
\* digit; fractions are kept to one digit (tenths)
UnsignedTenths(b) ==
    IF b = <<>> \/ Cardinality(DotPos(b)) > 1 \/ ~(Range(b) \subseteq Digit \cup {"."})
       \/ Range(b) \cap Digit = {}
    THEN None
    ELSE IF DotPos(b) = {} THEN Some(DigitsVal(b) * 10)
    ELSE LET d == CHOOSE i \in DotPos(b) : TRUE
             frac == SubSeq(b, d + 1, Len(b))
         IN Some(DigitsVal(SubSeq(b, 1, d - 1)) * 10
                  + (IF frac = <<>> THEN 0 ELSE DigitVal(frac[1])))

ParseFloat(t) ==
    IF t # <<>> /\ t[1] = "-"
    THEN LET u == UnsignedTenths(Tail(t)) IN IF u = None THEN None ELSE Some(0 - u[1])
    ELSE UnsignedTenths(t)

coerce_float(raw) ==
    IF raw = None THEN None
    ELSE LET t == FilterSeq(raw[1], Digit \cup {".", "-"}) IN
         IF t # <<>> THEN ParseFloat(t) ELSE None

-----------------------------------------------------------------------------
(* The issues table *)

KeyCols == {"security_name", "start_date", "end_date", "detail_url"}

\* the allow-list of process_item's overwrite loop
AllowList ==
    {"exchange_platform", "type_of_issue", "type_of_issue_long", "issue_status",
     "security_type", "offer_price_raw", "price_min", "price_max",
     "face_value", "list_url"}

FloatCols == {"price_min", "price_max"}

\* Python truthiness of a column value: None, "" and 0.0 are falsy
Truthy(c, v) ==
    IF v = None THEN FALSE
    ELSE IF c \in FloatCols THEN v[1] # 0 ELSE v[1] # ""


Cols == KeyCols \cup AllowList \cup {"id", "payload"}

\* IssuesCompactDBPipeline._url_to_key: the path of the last files entry that
\* carries this url and a non-empty path; None when there is none
RECURSIVE UrlToKey(_, _)
UrlToKey(files, u) ==
    IF files = <<>> THEN None
    ELSE LET f == files[Len(files)] IN
         IF Truthy("url", f.url) /\ Truthy("path", f.path) /\ f.url = u THEN f.path
         ELSE UrlToKey(SubSeq(files, 1, Len(files) - 1), u)

OrEmptySeq(v) == IF v = None THEN <<>> ELSE v[1]
OrEmptyDict(v) == IF v = None THEN {} ELSE v[1]

\* an entry whose cloud_url is built whenever the key is there, base URL or not
PdfEntry_UrlWithoutBase(d, files, baseurl) ==
    LET key == UrlToKey(files, d.url) IN
    [label |-> d.label, url |-> d.url, cloud_key |-> key,
     cloud_url |-> IF key # None THEN Some(<<baseurl, "/", key[1]>>) ELSE None]

\* one entry of the payload's pdfs list (process_item, the loop over pdf_links)
PdfEntry(d, files, baseurl) ==
    LET key == UrlToKey(files, d.url) IN
    [label |-> d.label, url |-> d.url, cloud_key |-> key,
     cloud_url |-> IF key # None /\ baseurl # "" THEN Some(<<baseurl, "/", key[1]>>)
                   ELSE None]

BuildPdfs(item, baseurl) ==
    LET links == OrEmptySeq(item.pdf_links) IN
    [i \in 1..Len(links) |-> PdfEntry(links[i], OrEmptySeq(item.files), baseurl)]

BuildPayload(item, baseurl) ==
    [details |-> OrEmptyDict(item.details),
     pdfs    |-> BuildPdfs(item, baseurl),
     links   |-> OrEmptySeq(item.links),
     files   |-> OrEmptySeq(item.files)]

\* obj = IssueCompact(...): the incoming item as column values (no id yet)
MakeObj(item, baseurl) ==
    [security_name      |-> item.security_name,
     exchange_platform  |-> item.exchange_platform,
     type_of_issue      |-> item.type_of_issue,
     type_of_issue_long |-> item.type_of_issue_long,
     issue_status       |-> item.issue_status,
     security_type      |-> item.security_type,
     start_date         |-> to_iso_date(item.start_date),
     end_date           |-> to_iso_date(item.end_date),
     offer_price_raw    |-> item.offer_price,
     price_min          |-> coerce_float(item.price_min),
     price_max          |-> coerce_float(item.price_max),
     face_value         |-> item.face_value,
     list_url           |-> item.list_url,
     detail_url         |-> item.detail_url,
     payload            |-> BuildPayload(item, baseurl)]

\* the identity filter of the lookup query; "col == None" is rendered by the
\* ORM as "col IS NULL", so a null part matches exactly the null parts
SameIdentity(r, obj) ==
    /\ r.security_name = obj.security_name
    /\ r.start_date = obj.start_date
    /\ r.end_date = obj.end_date
    /\ r.detail_url = obj.detail_url

Lookup(rows, obj) == {r \in rows : SameIdentity(r, obj)}

\* the guard "if val:" of the overwrite loop
Overwrites(c, val) == Truthy(c, val)

\* a field-level merge of the stored payload with the incoming one
NewPayload_Merge(old, incoming) ==
    [details |-> old.details \cup incoming.details,
     pdfs    |-> incoming.pdfs,
     links   |-> incoming.links,
     files   |-> incoming.files]

\* existing.payload = obj.payload
NewPayload(old, incoming) == incoming

\* the attributes process_item assigns on "existing", with the assigned value
Assigned(obj) == {c \in AllowList : Overwrites(c, obj[c])} \cup {"payload"}

AssignedValue(c, snapshot, obj) ==
    IF c = "payload" THEN NewPayload(snapshot.payload, obj.payload) ELSE obj[c]

\* the UPDATE the flush emits: the ORM writes a column only when the assigned
\* value differs from the value the object was loaded with
Dirty(snapshot, obj) ==
    {c \in Assigned(obj) : AssignedValue(c, snapshot, obj) # snapshot[c]}

\* an upsert that replaces the row found by a fresh row built from obj
ApplyUpdate_Reinsert(cur, snapshot, obj) ==
    [c \in Cols |-> IF c = "id" THEN nextId ELSE obj[c]]

ApplyUpdate(cur, snapshot, obj) ==
    [c \in Cols |-> IF c \in Dirty(snapshot, obj) THEN AssignedValue(c, snapshot, obj)
                    ELSE cur[c]]

\* uq_issue_identity: PostgreSQL UNIQUE treats NULLs as distinct, so a new row
\* conflicts only with a row whose four key columns are all non-null and equal
UniqueViolation(rows, row) ==
    \E r \in rows :
        /\ \A c \in KeyCols : r[c] # None /\ row[c] # None
        /\ \A c \in KeyCols : r[c] = row[c]

\* security_name VARCHAR(512) NOT NULL
NotNullViolation(row) == row.security_name = None

InsertFails(rows, row) == NotNullViolation(row) \/ UniqueViolation(rows, row)

NewRow(obj, id) == [c \in Cols |-> IF c = "id" THEN id ELSE obj[c]]

\* a failed INSERT whose row is not rolled back
AfterInsert_NoRollback(rows, row) == rows \cup {row}

\* the table after sess.add(obj); sess.commit(): the row is there unless the
\* INSERT raised, in which case sess.rollback() leaves the table as it was
AfterInsert(rows, row) == IF InsertFails(rows, row) THEN rows ELSE rows \cup {row}

-----------------------------------------------------------------------------
(* The items the spiders hand to process_item *)

Date0105 == Some(<<"2024", "-", "01", "-", "05">>)
Date0105dmy == Some(<<"05", "-", "01", "-", "2024">>)
Date0109 == Some(<<"09", "/", "01", "/", "2024">>)

PdfA == [label |-> Some("Prospectus"), url |-> Some("https://x/a.pdf")]
PdfB == [label |-> Some("Notice"), url |-> Some("https://x/b.pdf")]
FileA == [url |-> Some("https://x/a.pdf"), path |-> Some("issues/Acme/a_1f.pdf")]
LinkA == [label |-> Some("Registrar"), url |-> Some("https://x/reg")]

\* a listing row without detail page content: identity parts only
BaseItem ==
    [security_name |-> Some("Acme"), start_date |-> Date0105, end_date |-> Date0109,
     detail_url |-> Some("https://x/acme"),
     exchange_platform |-> None, type_of_issue |-> None, type_of_issue_long |-> None,
     issue_status |-> None, security_type |-> None, offer_price |-> None,
     price_min |-> None, price_max |-> None, face_value |-> None, list_url |-> None,
     details |-> None, pdf_links |-> None, links |-> None, files |-> None]

FullItem ==
    [BaseItem EXCEPT !.exchange_platform = Some("BSE"), !.type_of_issue = Some("IPO"),
                     !.type_of_issue_long = Some("IPO"), !.issue_status = Some("Open"),
                     !.security_type = Some("Equity"), !.offer_price = Some("5 - 7"),
                     !.price_min = Some(<<"5">>), !.price_max = Some(<<"R", "s", "7">>),
                     !.face_value = Some("10"), !.list_url = Some("https://x/list")]

Items ==
    { BaseItem,
      FullItem,
      \* a later scrape of the same issue: some values changed, some empty
      [FullItem EXCEPT !.exchange_platform = Some(""), !.type_of_issue = None,
                       !.type_of_issue_long = Some("Initial Public Offer"),
                       !.issue_status = Some("Closed"), !.offer_price = Some(""),
                       !.price_min = Some(<<"0">>), !.price_max = Some(<<"-">>),
                       !.face_value = None, !.list_url = Some("https://x/list2")],
      \* the base item with one more field
      [BaseItem EXCEPT !.issue_status = Some("Open")],
      [BaseItem EXCEPT !.price_min = Some(<<"0">>)],
      [BaseItem EXCEPT !.price_min = Some(<<"2", ".", "5">>)],
      \* the same identity written in another date format
      [BaseItem EXCEPT !.start_date = Date0105dmy, !.issue_status = Some("Open")],
      \* identities with a null part: no detail page, unparseable date
      [BaseItem EXCEPT !.detail_url = None, !.start_date = Some(<<"TBA">>)],
      \* no security name
      [BaseItem EXCEPT !.security_name = None],
      \* another issue
      [BaseItem EXCEPT !.security_name = Some("Beta")],
      \* detail pages with payload content
      [BaseItem EXCEPT !.details = Some({<<"Issue Size", "100">>, <<"ISIN", "IN1">>}),
                       !.pdf_links = Some(<<PdfA, PdfB>>), !.links = Some(<<LinkA>>),
                       !.files = Some(<<FileA>>)],
      [BaseItem EXCEPT !.details = Some({<<"Registrar", "R1">>}),
                       !.pdf_links = Some(<<PdfB>>), !.links = Some(<<>>)] }

Sessions == {"p1", "p2"}

\* R2_PUBLIC_BASEURL of each pipeline process: unset in one, set in the other
BaseUrlOf(s) == IF s = "p1" THEN "" ELSE "https://cdn.example"

-----------------------------------------------------------------------------
(* process_item, in two steps: the lookup query, then flush and commit *)


IdleSession == [pc |-> "idle", item |-> None, obj |-> None, existing |-> None]

\* the pipelines after open_spider, on an empty table; the spider and the
\* pager probe are not started
InitDB ==
    /\ issues = {}
    /\ nextId = 1
    /\ sess = [s \in Sessions |-> IdleSession]
    /\ calls = 0
    /\ log = <<>>
    /\ r2_public_baseurl = [s \in Sessions |-> BaseUrlOf(s)]
    /\ site = [name |-> "none", grids |-> <<>>]
    /\ pending = {} /\ emitted = {} /\ issued = {} /\ handled = {}
    /\ seen = <<>> /\ fallback = None
    /\ pagerIn = <<>> /\ pagerOut = None
    /\ tableIn = None /\ tableOut = None /\ fileIn = None /\ fileOut = None
    /\ formIn = None /\ formOut = None

Logged(s, item, outcome, row) ==
    [session |-> s, item |-> item, outcome |-> outcome, row |-> row]

\* lines 143-188: build obj, run the lookup; one_or_none() raises when the
\* filter matches several rows, and the except branch rolls back and re-raises
Query(s, item) ==
    /\ sess[s].pc = "idle"
    /\ calls < MaxCalls
    /\ calls' = calls + 1
    /\ LET obj == MakeObj(item, r2_public_baseurl[s])
           found == Lookup(issues, obj)
       IN IF Cardinality(found) > 1
          THEN /\ log' = Append(log, Logged(s, item, "raised", None))
               /\ sess' = sess
          ELSE /\ sess' = [sess EXCEPT ![s] =
                              [pc |-> "queried", item |-> Some(item), obj |-> Some(obj),
                               existing |-> IF found = {} THEN None
                                            ELSE Some(CHOOSE r \in found : TRUE)]]
               /\ log' = log
    /\ UNCHANGED <<issues, nextId, r2_public_baseurl, crawlVars, pagerVars, probeVars>>

\* lines 189-205: overwrite the allow-listed fields on the row found, or add
\* obj; commit; on an exception roll back and re-raise
Commit(s) ==
    /\ sess[s].pc = "queried"
    /\ LET item == sess[s].item[1]
           obj == sess[s].obj[1]
       IN IF sess[s].existing # None
          THEN LET snapshot == sess[s].existing[1]
                   cur == CHOOSE r \in issues : r.id = snapshot.id
                   new == ApplyUpdate(cur, snapshot, obj)
               IN /\ issues' = (issues \ {cur}) \cup {new}
                  /\ nextId' = nextId
                  /\ log' = Append(log, Logged(s, item, "returned", Some(new)))
          ELSE LET row == NewRow(obj, nextId)
               IN /\ nextId' = nextId + 1
                  /\ issues' = AfterInsert(issues, row)
                  /\ log' = Append(log, IF InsertFails(issues, row)
                                        THEN Logged(s, item, "raised", None)
                                        ELSE Logged(s, item, "returned", Some(row)))
    /\ sess' = [sess EXCEPT ![s] = IdleSession]
    /\ UNCHANGED <<calls, r2_public_baseurl, crawlVars, pagerVars, probeVars>>

\* several pipeline processes share the database
NextDB == \E s \in Sessions : (\E item \in Items : Query(s, item)) \/ Commit(s)

Spec == InitDB /\ [][NextDB]_vars

\* one crawl process: Scrapy runs process_item to completion, one item at a time
Alone(s) == \A t \in Sessions \ {s} : sess[t].pc = "idle"
SeqQuery(s, item) == Alone(s) /\ Query(s, item)
SeqCommit(s) == Alone(s) /\ Commit(s)

NextSeq == \E s \in Sessions : (\E item \in Items : SeqQuery(s, item)) \/ SeqCommit(s)

SpecSeq == InitDB /\ [][NextSeq]_vars

-----------------------------------------------------------------------------
(* Properties of the persistence layer *)

LastLog == log[Len(log)]
Returned(j) == log[j].outcome = "returned"
Raised(j) == log[j].outcome = "raised"
ObjOf(j) == MakeObj(log[j].item, r2_public_baseurl[log[j].session])

\* the item field behind a column
ItemField(c) == IF c = "offer_price_raw" THEN "offer_price" ELSE c

\* an incoming item value that is neither None nor the empty string
NonEmptyRaw(c, v) == v # None /\ (IF c \in FloatCols THEN v[1] # <<>> ELSE v[1] # "")

\* the empty values of a column: null and the empty string
EmptyValue(c, v) == v = None \/ (c \notin FloatCols /\ v[1] = "")

\* item k is item i with exactly one more non-empty allow-listed field, c
OneMoreField(i, k, c) ==
    /\ i[ItemField(c)] = None
    /\ NonEmptyRaw(c, k[ItemField(c)])
    /\ k = [i EXCEPT ![ItemField(c)] = k[ItemField(c)]]

\* C1: in every reachable state, after any interleaving of upserts, at most
\* one stored row exists for each identity tuple (security_name, start_date,
\* end_date, detail_url), a null part matching only a null part.
C1_OneRowPerIdentity == \A r1, r2 \in issues : SameIdentity(r1, r2) => r1 = r2

\* C2, first half: process_item run twice in sequence by one process on an
\* identical record leaves one row for the identity, with the values the
\* first run left.
SameTwice(j) ==
    /\ Returned(j) /\ Returned(j + 1)
    /\ log[j].item = log[j + 1].item
    /\ log[j].session = log[j + 1].session

C2_SecondRunChangesNothing ==
    \A j \in 1..(Len(log) - 1) :
        SameTwice(j) =>
            /\ log[j + 1].row = log[j].row
            /\ Cardinality(Lookup(issues, log[j].row[1])) = 1

\* C2: upsert is idempotent: the second run on an identical record changes
\* nothing, and a third run that carries exactly one additional non-empty
\* allow-listed field changes that field, and only that field, of the row.
C2_IdempotentUpsert ==
    /\ C2_SecondRunChangesNothing
    /\ \A j \in 1..(Len(log) - 2) : \A c \in AllowList :
          ( /\ SameTwice(j) /\ Returned(j + 2)
            /\ log[j + 2].session = log[j].session
            /\ OneMoreField(log[j].item, log[j + 2].item, c) )
          => log[j + 2].row[1] = [log[j + 1].row[1] EXCEPT ![c] = ObjOf(j + 2)[c]]

\* C3: when process_item finds an existing row, every allow-listed column
\* afterwards holds the incoming value if that value is non-empty (neither
\* null nor "") and its previous stored value otherwise.
C3_OverwriteRule ==
    [][ \A s \in Sessions :
          (sess[s].pc = "queried" /\ sess[s].existing # None /\ sess'[s].pc = "idle")
          => LET old == sess[s].existing[1]
                 obj == sess[s].obj[1]
                 new == CHOOSE r \in issues' : r.id = old.id
             IN \A c \in AllowList :
                   new[c] = IF EmptyValue(c, obj[c]) THEN old[c] ELSE obj[c] ]_vars

C5_FrameAndGrowth ==
    [][ \A r \in issues :
          \E q \in issues' : q.id = r.id /\ \A c \in KeyCols : q[c] = r[c] ]_vars

\* an update has changed an allow-listed column of a stored row while another
\* row is stored beside it
C5_Witness ==
    /\ Cardinality(issues) >= 2
    /\ \E j, k \in 1..Len(log) :
          /\ j < k /\ Returned(j) /\ Returned(k)
          /\ log[j].row[1].id = log[k].row[1].id
          /\ \E c \in AllowList : log[j].row[1][c] # log[k].row[1][c]
          /\ log[k].row[1] \in issues

\* C6: a process_item call that raises leaves the table as it was and leaves
\* every other call in progress untouched, and a call raises only for a cause
\* in its own record (no security name, or an identity already stored), so
\* later calls for other records succeed.
C6_FailureRollsBack ==
    [][ (Len(log') = Len(log) + 1 /\ log'[Len(log')].outcome = "raised")
        => LET e == log'[Len(log')]
               obj == MakeObj(e.item, r2_public_baseurl[e.session])
           IN /\ issues' = issues
              /\ \A t \in Sessions \ {e.session} : sess'[t] = sess[t]
              /\ sess'[e.session].pc = "idle"
              /\ obj.security_name = None \/ Lookup(issues, obj) # {} ]_vars

\* a call has raised, the table holds what it held, and a later call for
\* another record has returned
C6_Witness ==
    \E j, k \in 1..Len(log) :
        /\ j < k /\ Raised(j) /\ Returned(k)
        /\ ~SameIdentity(ObjOf(j), ObjOf(k))
        /\ log[k].row[1] \in issues

\* C7: when two upserts of one identity interleave so that both lookups run
\* before either commit, the upsert that commits second ends in a uniqueness
\* violation, is rolled back, and the table keeps a single row for the
\* identity.
C7_RaceOneInsert ==
    [][ \A s \in Sessions :
          ( /\ sess[s].pc = "queried" /\ sess[s].existing = None
            /\ sess'[s].pc = "idle"
            /\ Lookup(issues, sess[s].obj[1]) # {} )
          => /\ issues' = issues
             /\ log'[Len(log')].outcome = "raised"
             /\ Cardinality(Lookup(issues', sess[s].obj[1])) = 1 ]_vars

-----------------------------------------------------------------------------
(* BseIPOProcessStatusSpider: text.  A text is a sequence of tokens: words,  *)
(* digits, punctuation and whitespace.                                     *)

WhiteTok == {" ", "\n"}

\* the letters-free tokens are the digits, punctuation and whitespace
LetterFree == Digit \cup WhiteTok \cup {":", "$", "%24", "_", "-", ".", ""}
HasLetter(text) == \E i \in 1..Len(text) : text[i] \notin LetterFree

\* str.lower(), token by token
LowerTok(t) ==
    CASE t \in {"Name", "NAME"} -> "name"
      [] t \in {"Status", "STATUS"} -> "status"
      [] t = "Acme" -> "acme"
      [] OTHER -> t
Lower(text) == [i \in 1..Len(text) |-> LowerTok(text[i])]

RECURSIVE LStripW(_)
LStripW(s) == IF s # <<>> /\ Head(s) \in WhiteTok THEN LStripW(Tail(s)) ELSE s
RECURSIVE RStripW(_)
RStripW(s) ==
    IF s # <<>> /\ s[Len(s)] \in WhiteTok THEN RStripW(SubSeq(s, 1, Len(s) - 1)) ELSE s

\* re.sub(r"\s+", " ", ...): every run of whitespace becomes one space
RECURSIVE Collapse(_)
Collapse(s) ==
    IF s = <<>> THEN <<>>
    ELSE IF Head(s) \in WhiteTok THEN <<" ">> \o Collapse(LStripW(s))
    ELSE <<Head(s)>> \o Collapse(Tail(s))

\* _norm
Norm(s) == Collapse(RStripW(LStripW(s)))

\* _clean_header: _norm, then one trailing colon (and whitespace after it) off
clean_header(s) ==
    LET n == Norm(s) IN
    IF n # <<>> /\ n[Len(n)] = ":" THEN SubSeq(n, 1, Len(n) - 1) ELSE n

\* " ".join(texts)
RECURSIVE JoinSpace(_)
JoinSpace(texts) ==
    IF texts = <<>> THEN <<>>
    ELSE IF Len(texts) = 1 THEN texts[1]
    ELSE texts[1] \o <<" ">> \o JoinSpace(Tail(texts))

RECURSIVE Flatten(_)
Flatten(ss) == IF ss = <<>> THEN <<>> ELSE Head(ss) \o Flatten(Tail(ss))

RECURSIVE SelectSeq2(_, _)
SelectSeq2(s, keep) ==
    IF s = <<>> THEN <<>>
    ELSE IF Head(s) \in keep THEN <<Head(s)>> \o SelectSeq2(Tail(s), keep)
         ELSE SelectSeq2(Tail(s), keep)

\* text()[normalize-space()] under a list of cells: the text nodes that are
\* not blank, in document order (a cell is the sequence of its text nodes)
NonBlankTexts(cells) ==
    LET all == Flatten(cells) IN
    SelectSeq2(all, {all[i] : i \in {k \in 1..Len(all) : Norm(all[k]) # <<>>}})

\* str(i) for a positive int
RECURSIVE IntToDigits(_)
DigitChar(d) == CHOOSE c \in Digit : DigitVal(c) = d
IntToDigits(n) ==
    IF n < 10 THEN <<DigitChar(n)>> ELSE IntToDigits(n \div 10) \o <<DigitChar(n % 10)>>

-----------------------------------------------------------------------------
(* _parse_table.  A table is [doc, pos, ths, rows, hrefs]: the cells of its *)
(* tr[th] rows, its tr[td] rows (each a sequence of cells), and the hrefs  *)
(* of its __doPostBack anchors.                                            *)

ProvKeys == {<<"section">>, <<"section_title">>, <<"page_index">>, <<"source_url">>}

DictPut(d, k, v) == {q \in d : q[1] # k} \cup {<<k, v>>}

\* lines 175-186: header resolution
ResolveHeaders(table) ==
    LET ths == [i \in 1..Len(NonBlankTexts(table.ths)) |->
                    clean_header(NonBlankTexts(table.ths)[i])]
        first == IF table.rows = <<>> THEN <<>> ELSE NonBlankTexts(table.rows[1])
        cand == [i \in 1..Len(first) |-> clean_header(first[i])]
    IN IF ths # <<>> THEN ths
       ELSE IF cand # <<>> /\ \E i \in 1..Len(cand) : HasLetter(cand[i]) THEN cand
       ELSE <<>>

\* a comparison of first row and headers that minds the case
DropFirst_CaseSensitive(table, headers) ==
    /\ headers # <<>> /\ table.rows # <<>>
    /\ Len(table.rows[1]) = Len(headers)
    /\ \A i \in 1..Len(headers) : clean_header(JoinSpace(table.rows[1][i])) = headers[i]

\* lines 189-195: the first row repeats the headers
DropFirst(table, headers) ==
    /\ headers # <<>> /\ table.rows # <<>>
    /\ LET first_cells == [i \in 1..Len(table.rows[1]) |->
                              clean_header(JoinSpace(table.rows[1][i]))]
       IN /\ Len(first_cells) = Len(headers)
          /\ \A i \in 1..Len(headers) : Lower(first_cells[i]) = Lower(headers[i])

\* a key rule that takes the header name even when it is empty
KeyOf_EmptyNameKept(headers, i) ==
    IF i <= Len(headers) THEN headers[i] ELSE <<"col_">> \o IntToDigits(i)

\* line 206: the key of cell i (1-based)
KeyOf(headers, i) ==
    IF i <= Len(headers) /\ headers[i] # <<>> THEN headers[i]
    ELSE <<"col_">> \o IntToDigits(i)

RECURSIVE RowDict(_, _, _)
RowDict(headers, cells, n) ==
    IF n = 0 THEN {}
    ELSE DictPut(RowDict(headers, cells, n - 1), KeyOf(headers, n), cells[n])

\* lines 200-213: one row; None for a blank row
RowItem(headers, row, section_index, section_title, page_index, url) ==
    LET cells == [i \in 1..Len(row) |-> Norm(JoinSpace(row[i]))] IN
    IF \A i \in 1..Len(cells) : cells[i] = <<>> THEN None
    ELSE Some([cols |-> {q \in RowDict(headers, cells, Len(cells)) : q[1] \notin ProvKeys},
               section |-> section_index, section_title |-> section_title,
               page_index |-> page_index, source_url |-> url])

parse_table(table, section_index, section_title, page_index, url) ==
    LET headers == ResolveHeaders(table)
        start == IF DropFirst(table, headers) THEN 2 ELSE 1
        rows == SubSeq(table.rows, start, Len(table.rows))
    IN Flatten([i \in 1..Len(rows) |->
                   RowItem(headers, rows[i], section_index, section_title, page_index, url)])

-----------------------------------------------------------------------------
(* _extract_pager.  An href of a __doPostBack anchor is [target, arg, sep]: *)
(* the two quoted arguments as token sequences and the text between them.  *)

\* urllib.parse.unquote, token by token
UnquoteTok(t) == IF t = "%24" THEN "$" ELSE t
Unquote(text) == [i \in 1..Len(text) |-> UnquoteTok(text[i])]

\* the regular expression of lines 251 and 305 matches: both arguments are
\* non-empty and nothing but a comma stands between them
PostbackMatch(href) == href.target # <<>> /\ href.arg # <<>> /\ href.sep = ","

\* _extract_target_from_postback_list
RECURSIVE extract_target(_)
extract_target(hrefs) ==
    IF hrefs = <<>> THEN None
    ELSE IF PostbackMatch(Head(hrefs)) THEN Some(Unquote(Head(hrefs).target))
    ELSE extract_target(Tail(hrefs))

\* the maximal run of digits at the head of a text
RECURSIVE DigitRun(_)
DigitRun(s) ==
    IF s # <<>> /\ Head(s) \in Digit THEN <<Head(s)>> \o DigitRun(Tail(s)) ELSE <<>>

\* re.search(r"Page\$(\d+)", arg): the leftmost "Page$" followed by digits
PageSelectAt(arg) ==
    {i \in 1..(Len(arg) - 2) : arg[i] = "Page" /\ arg[i + 1] = "$" /\ arg[i + 2] \in Digit}

Min(S) == CHOOSE x \in S : \A y \in S : x <= y

PageSelect(arg) ==
    IF PageSelectAt(arg) = {} THEN None
    ELSE Some(DigitsVal(DigitRun(SubSeq(arg, Min(PageSelectAt(arg)) + 2, Len(arg)))))

\* a pager reader that never recognises a Next link
DenotesNext_Never(arg) == FALSE

\* "Page$Next" in arg
DenotesNext(arg) ==
    \E i \in 1..(Len(arg) - 2) : arg[i] = "Page" /\ arg[i + 1] = "$" /\ arg[i + 2] = "Next"

RECURSIVE SortedSeq(_)
SortedSeq(S) == IF S = {} THEN <<>> ELSE <<Min(S)>> \o SortedSeq(S \ {Min(S)})

MatchedArgs(hrefs) ==
    {Unquote(hrefs[i].arg) : i \in {k \in 1..Len(hrefs) : PostbackMatch(hrefs[k])}}

\* a page set that holds page 1 whatever the links say
PagerPages_WithOne(hrefs) ==
    {1} \cup {PageSelect(a)[1] : a \in {b \in MatchedArgs(hrefs) : PageSelect(b) # None}}

\* the page set of lines 248-265
PagerPages(hrefs) ==
    LET found == {PageSelect(a)[1] : a \in {b \in MatchedArgs(hrefs) : PageSelect(b) # None}}
    IN IF found = {} THEN {1} ELSE found

\* a pager reader that reports the target and the pages and never a Next link
extract_pager_NoNext(table) ==
    [target   |-> extract_target(table.hrefs),
     pages    |-> SortedSeq(PagerPages(table.hrefs)),
     has_next |-> FALSE]

extract_pager(table) ==
    [target   |-> extract_target(table.hrefs),
     pages    |-> SortedSeq(PagerPages(table.hrefs)),
     has_next |-> \E a \in MatchedArgs(table.hrefs) : DenotesNext(a)]

-----------------------------------------------------------------------------
(* _pick_section_table.  A document is a sequence of nodes in document      *)
(* order: headings [kind "h", text] and tables [kind "t", table].          *)

\* SECTION_TITLES, shortened to their leading words
SectionTitles ==
    << <<"1.", " ", "Draft", " ", "offer", " ", "document", " ", "under", " ", "process">>,
       <<"2.", " ", "Draft", " ", "Offer", " ", "Document", " ", "clarifications">>,
       <<"3.", " ", "Document", " ", "in-principal", " ", "Approval">>,
       <<"4.", " ", "List", " ", "of", " ", "documents", " ", "withdrawn">> >>

SectionIndexes == 1..Len(SectionTitles)

\* following::table[position()<=4]
FollowingTables == 4

HeadingAt(doc, title) ==
    {i \in 1..Len(doc) : doc[i].kind = "h" /\ Norm(doc[i].text) = Norm(title)}

TablesAfter(doc, i) ==
    LET idx == SortedSeq({k \in (i + 1)..Len(doc) : doc[k].kind = "t"})
    IN [n \in 1..Len(idx) |-> doc[idx[n]].table]

Candidates(doc, title) ==
    IF HeadingAt(doc, title) = {} THEN <<>>
    ELSE LET all == TablesAfter(doc, Min(HeadingAt(doc, title)))
         IN SubSeq(all, 1, IF Len(all) < FollowingTables THEN Len(all) ELSE FollowingTables)

has_rows(t) == t.rows # <<>>
has_pager(t) == t.hrefs # <<>>

\* the loop of lines 226-236 over the candidates, with the slot
\* self._fallback_table_chosen threaded through: the result is the table
\* returned (or None) and the slot afterwards
RECURSIVE PickLoop(_, _)
PickLoop(cands, slot) ==
    IF cands = <<>> THEN [table |-> slot, slot |-> slot]
    ELSE LET t == Head(cands) IN
         IF has_rows(t) /\ has_pager(t) THEN [table |-> Some(t), slot |-> slot]
         ELSE IF has_rows(t) /\ slot = None THEN PickLoop(Tail(cands), Some(t))
         ELSE PickLoop(Tail(cands), slot)

pick_section_table(doc, title, slot) == PickLoop(Candidates(doc, title), slot)

-----------------------------------------------------------------------------
(* _make_postback_request.  A response's hidden inputs are a sequence of    *)
(* [name, value]; a form is the set of its <<name, value>> pairs.          *)

Tokens3 == {"__VIEWSTATE", "__VIEWSTATEGENERATOR", "__EVENTVALIDATION"}

\* xpath(...).get(default=""): the value of the first input of that name
FirstValue(hidden, name) ==
    LET at == {i \in 1..Len(hidden) : hidden[i].name = name}
    IN IF at = {} THEN <<>> ELSE hidden[Min(at)].value

\* a collector that takes the three state tokens only
collect_hidden_TokensOnly(hidden) == {<<n, FirstValue(hidden, n)>> : n \in Tokens3}

\* _collect_aspnet_hidden_fields: name -> value; an input with an empty
\* name is passed over (line 298)
collect_hidden(hidden) ==
    {<<n, FirstValue(hidden, n)>> :
        n \in Tokens3 \cup ({hidden[i].name : i \in 1..Len(hidden)} \ {""})}

FormPut(form, name, value) == {q \in form : q[1] # name} \cup {<<name, value>>}
FormGet(form, name) == (CHOOSE q \in form : q[1] = name)[2]

\* a request builder that hands every request to the next-chain handler,
\* with the section's seen set
make_postback_request_AllNext(response, event_target, event_argument, callback, cb_kwargs) ==
    [url      |-> response.url,
     formdata |-> FormPut(FormPut(collect_hidden(response.hidden),
                                  "__EVENTTARGET", event_target),
                          "__EVENTARGUMENT", event_argument),
     callback |-> "_parse_section_next",
     cb_kwargs |-> [cb_kwargs EXCEPT !.seen = <<cb_kwargs.section_index>>]]

make_postback_request(response, event_target, event_argument, callback, cb_kwargs) ==
    [url      |-> response.url,
     formdata |-> FormPut(FormPut(collect_hidden(response.hidden),
                                  "__EVENTTARGET", event_target),
                          "__EVENTARGUMENT", event_argument),
     callback |-> callback,
     cb_kwargs |-> cb_kwargs]

\* f"Page${p}" and "Page$Next"
PageArg(p) == <<"Page", "$">> \o IntToDigits(p)
NextArg == <<"Page", "$", "Next">>

-----------------------------------------------------------------------------
(* The site the spider crawls: an ASP.NET page with one GridView per        *)
(* section.  The page a grid shows travels in __VIEWSTATE, one digit per    *)
(* section; a postback on a grid's target turns that grid's page.          *)

\* start_urls
Url == "https://www.bseindia.com/markets/PublicIssues/IPOProcess_Status.aspx"

NoGrid == [style |-> "absent", npages |-> 0]
Grid(style, npages) == [style |-> style, npages |-> npages]

\* the sites of the model: grids[k] is the grid under section k's heading
Sites ==
    { [name |-> "odd5",
       grids |-> <<Grid("odd", 5), NoGrid, NoGrid, NoGrid>>],
      [name |-> "mixed",
       grids |-> <<Grid("all", 3), Grid("plain", 1), NoGrid, Grid("next", 2)>>],
      [name |-> "window4",
       grids |-> <<NoGrid, Grid("window", 4), NoGrid, NoGrid>>],
      [name |-> "sticky",
       grids |-> <<NoGrid, NoGrid, Grid("sticky", 2), NoGrid>>],
      [name |-> "plain2",
       grids |-> <<Grid("plain", 1), NoGrid, NoGrid, Grid("plain", 1)>>],
      [name |-> "forward2",
       grids |-> <<Grid("forward", 2), NoGrid, NoGrid, Grid("forward", 2)>>] }

\* the __EVENTTARGET of section k's grid
TargetOf(k) == <<"ctl00", "$", "gv", DigitChar(k)>>

\* the numeric page links a grid renders while it shows page p
LinkPages(grid, p) ==
    CASE grid.style = "all" -> (1..grid.npages) \ {p}
      [] grid.style = "odd" -> {q \in 1..grid.npages : q % 2 = 1}
      [] grid.style = "window" ->
             {q \in 1..grid.npages : (q + 1) \div 2 = (p + 1) \div 2 /\ q # p}
      [] OTHER -> {}

\* whether it renders a Next link, and a Prev link
NextLink(grid, p) ==
    \/ grid.style \in {"odd", "window", "next", "forward"} /\ p < grid.npages
    \/ grid.style = "sticky"
PrevLink(grid, p) == grid.style = "next" /\ p > 1

PostbackHref(k, arg) == [target |-> TargetOf(k), arg |-> arg, sep |-> ","]

GridHrefs(grid, k, p) ==
    LET nums == SortedSeq(LinkPages(grid, p)) IN
    [i \in 1..Len(nums) |-> PostbackHref(k, <<"Page", "$">> \o IntToDigits(nums[i]))]
    \o (IF PrevLink(grid, p) THEN <<PostbackHref(k, <<"Page", "$", "Prev">>)>> ELSE <<>>)
    \o (IF NextLink(grid, p) THEN <<PostbackHref(k, <<"Page", "$", "Next">>)>> ELSE <<>>)

\* the tables of section k: a layout table, then the grid showing page p
LayoutTable == [doc |-> <<>>, pos |-> 0, ths |-> <<>>, rows |-> <<>>, hrefs |-> <<>>]
GridTable(grid, k, p) ==
    [doc |-> <<>>, pos |-> 0,
     ths |-> << << <<"Name">> >>, << <<"\n", "Status", ":">> >> >>,
     rows |-> << << << <<"Acme">> >>, << <<DigitChar(k), DigitChar(p)>> >> >> >>,
     hrefs |-> GridHrefs(grid, k, p)]

SectionNodes(grid, k, p) ==
    IF grid.style = "absent" THEN <<>>
    ELSE << [kind |-> "h", text |-> <<"\n">> \o SectionTitles[k] \o <<" ">>],
            [kind |-> "t", table |-> LayoutTable],
            [kind |-> "t", table |-> GridTable(grid, k, p)] >>

\* the document of the response `path` when grid k shows page state[k]
Doc(s, state, path) ==
    LET raw == Flatten([k \in SectionIndexes |-> SectionNodes(s.grids[k], k, state[k])])
    IN [i \in 1..Len(raw) |->
           IF raw[i].kind = "t"
           THEN [kind |-> "t", table |-> [raw[i].table EXCEPT !.doc = path, !.pos = i]]
           ELSE raw[i]]

Hidden(state) ==
    << [name |-> "__VIEWSTATE", value |-> [k \in SectionIndexes |-> DigitChar(state[k])]],
       [name |-> "__VIEWSTATEGENERATOR", value |-> <<"G">>],
       [name |-> "__EVENTTARGET", value |-> <<>>],
       [name |-> "__EVENTARGUMENT", value |-> <<>>],
       [name |-> "__EVENTVALIDATION", value |-> <<"ev">>] >>

\* the page the server turns a grid to on an event argument
Turn(grid, cur, arg) ==
    LET want == IF Len(arg) < 3 \/ arg[1] # "Page" \/ arg[2] # "$" THEN cur
                ELSE IF arg[3] = "Next" THEN cur + 1
                ELSE IF arg[3] = "Prev" THEN cur - 1
                ELSE IF \A i \in 3..Len(arg) : arg[i] \in Digit
                     THEN DigitsVal(SubSeq(arg, 3, Len(arg)))
                ELSE cur
    IN IF want > grid.npages THEN grid.npages ELSE IF want < 1 THEN 1 ELSE want

\* the grid pages after the server has processed a request
StateAfter(s, req) ==
    IF req.formdata = {} THEN [k \in SectionIndexes |-> 1]
    ELSE LET vs == FormGet(req.formdata, "__VIEWSTATE")
             target == FormGet(req.formdata, "__EVENTTARGET")
             arg == FormGet(req.formdata, "__EVENTARGUMENT")
         IN [k \in SectionIndexes |->
                IF target = TargetOf(k) /\ s.grids[k].style # "absent"
                THEN Turn(s.grids[k], DigitVal(vs[k]), arg)
                ELSE DigitVal(vs[k])]

\* the response to a request; path names the response
Respond(s, req, path) ==
    [path |-> path, url |-> req.url,
     hidden |-> Hidden(StateAfter(s, req)),
     doc |-> Doc(s, StateAfter(s, req), path)]

-----------------------------------------------------------------------------
(* The crawl.  A request in flight is [path, from, by, req]: the name of    *)
(* the response it will get, the response whose handler issued it, and     *)
(* that handler.  Responses arrive in any order; a handler runs as a whole. *)

\* the longest Next-chain the model follows
MaxPageIndex == 6

NoKwargs ==
    [section_index |-> 0, section_title |-> <<>>, gv_target |-> <<>>,
     page_index |-> 0, seen |-> None]

\* start_urls, fetched by the default start_requests
StartEntry ==
    [path |-> <<"GET">>, from |-> <<>>, by |-> "start",
     req |-> [url |-> Url, formdata |-> {}, callback |-> "parse", cb_kwargs |-> NoKwargs]]

\* a request builder that posts the hidden fields of the first GET
Issue_StaleForm(response, by, k, target, arg, callback, cb_kwargs) ==
    [path |-> response.path \o <<DigitChar(k)>> \o SubSeq(arg, 3, Len(arg)),
     from |-> response.path, by |-> by,
     req |-> make_postback_request(
                 [response EXCEPT !.hidden = Hidden([j \in SectionIndexes |-> 1])],
                 target, arg, callback, cb_kwargs)]

Issue(response, by, k, target, arg, callback, cb_kwargs) ==
    [path |-> response.path \o <<DigitChar(k)>> \o SubSeq(arg, 3, Len(arg)),
     from |-> response.path, by |-> by,
     req |-> make_postback_request(response, target, arg, callback, cb_kwargs)]

\* the model follows a next-chain up to page MaxPageIndex
WithinBound(e) ==
    e.req.callback = "_parse_section_next" => e.req.cb_kwargs.page_index <= MaxPageIndex

\* what a handler did with a response for one section
HandledRec(response, callback, k, page_index, pick) ==
    [path |-> response.path, callback |-> callback, section_index |-> k,
     page_index |-> page_index, table |-> pick.table,
     pager |-> IF pick.table = None THEN None ELSE Some(extract_pager(pick.table[1]))]

\* a dispatch rule that only leaves out the page being handled
AfterThisPage_NotSame(p, page_index) == p # page_index

\* line 60 and line 104: the numeric pages a handler dispatches
AfterFirstPage(p) == p > 1
AfterThisPage(p, page_index) == p > page_index

\* self._fallback_table_chosen before iteration k of parse's loop
RECURSIVE SlotBefore(_, _, _)
SlotBefore(response, k, slot) ==
    IF k = 1 THEN slot
    ELSE pick_section_table(response.doc, SectionTitles[k - 1],
                            SlotBefore(response, k - 1, slot)).slot

\* one iteration of parse's loop (lines 42-88)
ParseSection(response, k, slot) ==
    LET title == SectionTitles[k]
        pick == pick_section_table(response.doc, title, slot)
        found == pick.table # None
        pager == extract_pager(pick.table[1])
        dispatch == found /\ pager.target # None
        kw(p, sn) == [section_index |-> k, section_title |-> title,
                      gv_target |-> pager.target[1], page_index |-> p, seen |-> sn]
    IN [rec |-> HandledRec(response, "parse", k, 1, pick),
        items |-> IF found
                  THEN Range(parse_table(pick.table[1], k, title, 1, response.url))
                  ELSE {},
        reqs |-> IF ~dispatch THEN {}
                 ELSE {Issue(response, "parse", k, pager.target[1], PageArg(p),
                             "_parse_section_page", kw(p, None))
                         : p \in {q \in Range(pager.pages) : AfterFirstPage(q)}}
                      \cup (IF pager.has_next
                            THEN {Issue(response, "parse", k, pager.target[1], NextArg,
                                        "_parse_section_next", kw(2, Some(k)))}
                            ELSE {}),
        chain |-> dispatch /\ pager.has_next]

\* parse
ParseResponse(e) ==
    /\ e \in pending /\ e.req.callback = "parse"
    /\ LET response == Respond(site, e.req, e.path)
           out == [k \in SectionIndexes |->
                      ParseSection(response, k, SlotBefore(response, k, fallback))]
           reqs == UNION {out[k].reqs : k \in SectionIndexes}
       IN /\ pending' = (pending \ {e}) \cup reqs
          /\ issued' = issued \cup reqs
          /\ emitted' = emitted \cup UNION {out[k].items : k \in SectionIndexes}
          /\ handled' = handled \cup {out[k].rec : k \in SectionIndexes}
          /\ seen' = [k \in SectionIndexes |-> IF out[k].chain THEN {1} ELSE seen[k]]
          /\ fallback' = SlotBefore(response, Len(SectionTitles) + 1, fallback)
    /\ UNCHANGED <<site, dbVars, pagerVars, probeVars>>

\* _parse_section_page
SectionPageResponse(e) ==
    /\ e \in pending /\ e.req.callback = "_parse_section_page"
    /\ LET response == Respond(site, e.req, e.path)
           kw == e.req.cb_kwargs
           pick == pick_section_table(response.doc, kw.section_title, fallback)
           found == pick.table # None
           pager == extract_pager(pick.table[1])
           reqs == IF ~found THEN {}
                   ELSE {Issue(response, "_parse_section_page", kw.section_index,
                               kw.gv_target, PageArg(p), "_parse_section_page",
                               [kw EXCEPT !.page_index = p])
                           : p \in {q \in Range(pager.pages) : AfterThisPage(q, kw.page_index)}}
       IN /\ pending' = (pending \ {e}) \cup reqs
          /\ issued' = issued \cup reqs
          /\ emitted' = emitted \cup
                 (IF found
                  THEN Range(parse_table(pick.table[1], kw.section_index, kw.section_title,
                                         kw.page_index, response.url))
                  ELSE {})
          /\ handled' = handled \cup
                 {HandledRec(response, "_parse_section_page", kw.section_index,
                             kw.page_index, pick)}
          /\ fallback' = pick.slot
    /\ UNCHANGED <<site, seen, dbVars, pagerVars, probeVars>>

\* a guard that lets every visible page through
NotSeen_All(pages, seenset) == pages

\* line 133: the visible pages that are not in the chain's seen set
NotSeen(pages, seenset) == {p \in pages : p \notin seenset}

\* _parse_section_next; kw.seen names the chain's set
SectionNextResponse(e) ==
    /\ e \in pending /\ e.req.callback = "_parse_section_next"
    /\ WithinBound(e)
    /\ LET response == Respond(site, e.req, e.path)
           kw == e.req.cb_kwargs
           ref == kw.seen[1]
           pick == pick_section_table(response.doc, kw.section_title, fallback)
           found == pick.table # None
           pager == extract_pager(pick.table[1])
           fresh == NotSeen(Range(pager.pages), seen[ref])
           numeric == {Issue(response, "_parse_section_next", kw.section_index,
                             kw.gv_target, PageArg(p), "_parse_section_page",
                             [kw EXCEPT !.page_index = p, !.seen = None])
                         : p \in fresh \ {kw.page_index}}
           next == IF pager.has_next
                   THEN {Issue(response, "_parse_section_next", kw.section_index,
                               kw.gv_target, NextArg, "_parse_section_next",
                               [kw EXCEPT !.page_index = kw.page_index + 1])}
                   ELSE {}
           reqs == IF found THEN numeric \cup next ELSE {}
       IN /\ pending' = (pending \ {e}) \cup reqs
          /\ issued' = issued \cup reqs
          /\ emitted' = emitted \cup
                 (IF found
                  THEN Range(parse_table(pick.table[1], kw.section_index, kw.section_title,
                                         kw.page_index, response.url))
                  ELSE {})
          /\ handled' = handled \cup
                 {HandledRec(response, "_parse_section_next", kw.section_index,
                             kw.page_index, pick)}
          /\ seen' = IF ~found THEN seen
                     ELSE [seen EXCEPT ![ref] =
                              @ \cup fresh
                                \cup (IF pager.has_next THEN {kw.page_index + 1} ELSE {})]
          /\ fallback' = pick.slot
    /\ UNCHANGED <<site, dbVars, pagerVars, probeVars>>

\* the spider opened on one of the sites; the pipelines idle
InitCrawl ==
    /\ site \in Sites
    /\ pending = {StartEntry} /\ issued = {StartEntry}
    /\ emitted = {} /\ handled = {}
    /\ seen = [k \in SectionIndexes |-> {}]
    /\ fallback = None
    /\ issues = {} /\ nextId = 1 /\ calls = 0 /\ log = <<>>
    /\ sess = [s \in Sessions |-> IdleSession]
    /\ r2_public_baseurl = [s \in Sessions |-> BaseUrlOf(s)]
    /\ pagerIn = <<>> /\ pagerOut = None
    /\ tableIn = None /\ tableOut = None /\ fileIn = None /\ fileOut = None
    /\ formIn = None /\ formOut = None

\* the engine delivers the response of any request in flight to its callback
HandleParse == \E e \in pending : ParseResponse(e)
HandleSectionPage == \E e \in pending : SectionPageResponse(e)
HandleSectionNext == \E e \in pending : SectionNextResponse(e)

NextCrawl == HandleParse \/ HandleSectionPage \/ HandleSectionNext

SpecCrawl == InitCrawl /\ [][NextCrawl]_vars

\* a response can be delivered: some request is in flight within the bound
CanDeliver == \E e \in pending : WithinBound(e)

\* Every response is delivered: the engine keeps calling back while requests
\* are in flight.  This is weak fairness of NextCrawl, written out with
\* CanDeliver for ENABLED <<NextCrawl>>_vars (a handler always takes its
\* request out of pending, so it is enabled exactly when CanDeliver holds).
FairSpecCrawl == SpecCrawl /\ ([]<>~CanDeliver \/ []<><<NextCrawl>>_vars)

-----------------------------------------------------------------------------
(* _extract_pager on its own: tables with up to MaxHrefs postback anchors   *)

MaxHrefs == 3

ProbeHrefs ==
    { [target |-> <<"pager1">>, arg |-> <<"Page", "$", "1">>, sep |-> ","],
      [target |-> <<"pager1">>, arg |-> <<"Page", "$", "2">>, sep |-> ","],
      [target |-> <<"pager1">>, arg |-> <<"Page", "$", "Next">>, sep |-> ","],
      [target |-> <<"ctl00", "%24", "gv">>, arg |-> <<"Page", "%24", "1", "2">>, sep |-> ","],
      [target |-> <<"pager2">>, arg |-> <<"Sort", "$", "Name">>, sep |-> ","],
      [target |-> <<"pager2">>, arg |-> <<"Page", "$", "3">>, sep |-> ", "] }

SeqsUpTo(S, n) == UNION {[1..m -> S] : m \in 0..n}

InitPager ==
    /\ pagerIn \in SeqsUpTo(ProbeHrefs, MaxHrefs)
    /\ pagerOut = None
    /\ site = [name |-> "none", grids |-> <<>>]
    /\ pending = {} /\ emitted = {} /\ issued = {} /\ handled = {}
    /\ seen = <<>> /\ fallback = None
    /\ issues = {} /\ nextId = 1 /\ calls = 0 /\ log = <<>>
    /\ sess = [s \in Sessions |-> IdleSession]
    /\ r2_public_baseurl = [s \in Sessions |-> BaseUrlOf(s)]
    /\ tableIn = None /\ tableOut = None /\ fileIn = None /\ fileOut = None
    /\ formIn = None /\ formOut = None

ExtractPager ==
    /\ pagerOut = None
    /\ pagerOut' = Some(extract_pager([LayoutTable EXCEPT !.hrefs = pagerIn]))
    /\ UNCHANGED <<pagerIn, dbVars, crawlVars, probeVars>>

SpecPager == InitPager /\ [][ExtractPager]_vars

-----------------------------------------------------------------------------
(* Properties of the crawl and of the pager reader                          *)

\* section k's grid renders, on page 1, numeric links 1, 3, 5 and a Next link
Exposes135(k) ==
    /\ site.grids[k].style # "absent"
    /\ LinkPages(site.grids[k], 1) = {1, 3, 5}
    /\ NextLink(site.grids[k], 1)

\* a postback for page p of section k's grid has been issued
Requested(k, p) ==
    \E e \in issued :
        /\ e.req.cb_kwargs.section_index = k
        /\ FormGet(e.req.formdata, "__EVENTTARGET") = TargetOf(k)
        /\ FormGet(e.req.formdata, "__EVENTARGUMENT") = <<"Page", "$">> \o IntToDigits(p)

\* page 1 arrives with the start request, pages 3 and 5 with postbacks
Covered135(k) == StartEntry \in issued /\ Requested(k, 3) /\ Requested(k, 5)

\* the responses section k's next-chain has handled, page 1 included
ChainResponses(k) ==
    {h \in handled : h.section_index = k /\ h.table # None
                     /\ h.callback \in {"parse", "_parse_section_next"}}

\* the table a handler read renders a Next link
RendersNext(h) ==
    \E i \in 1..Len(h.table[1].hrefs) : h.table[1].hrefs[i].arg = <<"Page", "$", "Next">>

NextPostbacksFrom(h) ==
    {e \in issued : /\ e.from = h.path
                    /\ e.req.callback = "_parse_section_next"
                    /\ e.req.cb_kwargs.section_index = h.section_index
                    /\ FormGet(e.req.formdata, "__EVENTARGUMENT") = <<"Page", "$", "Next">>}

OneNextPerResponse ==
    \A k \in SectionIndexes :
        Exposes135(k) =>
            \A h \in ChainResponses(k) :
                Cardinality(NextPostbacksFrom(h)) = (IF RendersNext(h) THEN 1 ELSE 0)

ChainEnded(k) ==
    \E h \in ChainResponses(k) : h.callback = "_parse_section_next" /\ ~RendersNext(h)

\* C8: when page 1 of a section exposes the numeric pages 1, 3, 5 and Next,
\* the crawl eventually has issued requests covering pages 1, 3 and 5 of that
\* section, every response of the section's next-chain that still renders
\* Next has exactly one Next postback issued from it (and one that does not
\* has none), and the chain eventually handles a response without Next.
C8_PagerCoverage ==
    /\ [](site.name # "none" => OneNextPerResponse)
    /\ (site.name # "none" /\ \E k \in SectionIndexes : Exposes135(k))
         ~> (\A k \in SectionIndexes : Exposes135(k) => Covered135(k) /\ ChainEnded(k))

C8_Witness ==
    /\ site.name # "none" /\ pending = {}
    /\ \E k \in SectionIndexes : Exposes135(k) /\ Covered135(k) /\ ChainEnded(k)

\* the NumericDispatch requests that descend from parse alone, and the
\* requests a next-chain issued itself
NumericDispatch(e) ==
    /\ e.by \in {"parse", "_parse_section_page"}
    /\ e.req.callback = "_parse_section_page"
    /\ "Next" \notin Range(e.path)
NextChain(e) == e.by = "_parse_section_next"

SameStrategyChain(e1, e2) ==
    \/ NumericDispatch(e1) /\ NumericDispatch(e2)
    \/ NextChain(e1) /\ NextChain(e2) /\ e1.req.callback = e2.req.callback

\* C9: within one crawl run no strategy-chain issues two postback requests
\* for the same section and the same page index: not NumericDispatch (parse
\* and the re-dispatching _parse_section_page), and not one next-chain.
C9_AtMostOncePerChain ==
    \A e1, e2 \in issued :
        ( /\ SameStrategyChain(e1, e2)
          /\ e1.req.cb_kwargs.section_index = e2.req.cb_kwargs.section_index
          /\ e1.req.cb_kwargs.page_index = e2.req.cb_kwargs.page_index )
        => e1 = e2

\* the table of the end-to-end example: pager1, page 2, next
Pager1Example ==
    << [target |-> <<"pager1">>, arg |-> <<"Page", "$", "2">>, sep |-> ","],
       [target |-> <<"pager1">>, arg |-> <<"Page", "$", "Next">>, sep |-> ","] >>

\* C10: the page list _extract_pager returns always contains page 1, and the
\* table with pager1 links for page 2 and for next yields
\* (target pager1, pages [1, 2], has_next true).
C10_PageOneAlways ==
    pagerOut # None =>
        /\ 1 \in Range(pagerOut[1].pages)
        /\ pagerIn = Pager1Example =>
               pagerOut[1] = [target |-> Some(<<"pager1">>), pages |-> <<1, 2>>,
                              has_next |-> TRUE]

-----------------------------------------------------------------------------
(* Properties of the section locator                                        *)

\* the response a handled record is about
EntryOf(h) == CHOOSE e \in issued : e.path = h.path
ResponseOf(h) == Respond(site, EntryOf(h).req, h.path)

\* the heading of the record's section is not in that response
HeadingAbsent(h) ==
    HeadingAt(ResponseOf(h).doc, SectionTitles[h.section_index]) = {}

\* C11: when a section's heading is absent from a response, the locator
\* returns no table for it, whatever earlier calls returned, and the handler
\* emits no record and issues no request for that section from that response.
\* (On every site of the model a heading is absent from all responses or
\* from none, so a record of the section at the page index of that response
\* can only come from that response.)
C11_AbsentHeadingNotFound ==
    \A h \in handled :
        HeadingAbsent(h) =>
            /\ h.table = None
            /\ ~\E e \in issued :
                   e.from = h.path /\ e.req.cb_kwargs.section_index = h.section_index
            /\ ~\E it \in emitted :
                   it.section = h.section_index /\ it.page_index = h.page_index

\* the candidates of section k in the response a table belongs to
HomeCandidates(t, k) ==
    LET e == CHOOSE x \in issued : x.path = t.doc
    IN Range(Candidates(Respond(site, e.req, e.path).doc, SectionTitles[k]))

\* line 232 returned the table: a candidate of this response with rows and pager
ReturnedAsPaged(h) ==
    /\ h.table[1] \in Range(Candidates(ResponseOf(h).doc, SectionTitles[h.section_index]))
    /\ has_rows(h.table[1]) /\ has_pager(h.table[1])

\* C12: the remembered rows-only fallback table is scoped per section: the
\* table returned for section S is never a fallback that was remembered while
\* resolving a different section.  A table remembered while resolving S is
\* one of S's candidates in the response it belongs to, so a returned table
\* that line 232 did not return must be such a candidate.
C12_FallbackPerSection ==
    \A h \in handled :
        (h.table # None /\ ~ReturnedAsPaged(h)) =>
            h.table[1] \in HomeCandidates(h.table[1], h.section_index)

-----------------------------------------------------------------------------
(* _parse_table on its own: tables with one of the header rows below and up *)
(* to MaxRows data rows                                                    *)

MaxRows == 2

\* a cell holding one text node
TextCell(text) == <<text>>

\* the th cells: none; Name, Status; a repeated name; a name that cleans to
\* the empty string; one header only; five headers
ProbeHeaderRows ==
    { <<>>,
      <<TextCell(<<"Name">>), TextCell(<<"\n", "Status", ":">>)>>,
      <<TextCell(<<"Name">>), TextCell(<<"Name">>)>>,
      <<TextCell(<<"Name">>), TextCell(<<":">>)>>,
      <<TextCell(<<"Name">>)>>,
      <<TextCell(<<"Name">>), TextCell(<<"Status">>), TextCell(<<"Type">>),
        TextCell(<<"Date">>), TextCell(<<"Price">>)>> }

\* the td rows: a data row; a row repeating the headers in another case; a
\* three-cell row with one worded cell; a blank row; a row of numbers; a
\* seven-cell row
ProbeRows ==
    { <<TextCell(<<"Acme">>), TextCell(<<"1", "2">>)>>,
      <<TextCell(<<"NAME">>), TextCell(<<"status", ":", " ">>)>>,
      <<TextCell(<<"Acme">>), TextCell(<<"1", "2">>), TextCell(<<"5">>)>>,
      <<TextCell(<<" ">>), <<>>>>,
      <<TextCell(<<"1", "2">>), TextCell(<<"5">>)>>,
      <<TextCell(<<"Acme">>), TextCell(<<"1">>), TextCell(<<"2">>), TextCell(<<"3">>),
        TextCell(<<"4">>), TextCell(<<"5">>), TextCell(<<"6">>)>> }

InitTable ==
    /\ tableIn \in {Some([LayoutTable EXCEPT !.ths = h, !.rows = r]) :
                       h \in ProbeHeaderRows, r \in SeqsUpTo(ProbeRows, MaxRows)}
    /\ tableOut = None
    /\ fileIn = None /\ fileOut = None /\ formIn = None /\ formOut = None
    /\ pagerIn = <<>> /\ pagerOut = None
    /\ site = [name |-> "none", grids |-> <<>>]
    /\ pending = {} /\ emitted = {} /\ issued = {} /\ handled = {}
    /\ seen = <<>> /\ fallback = None
    /\ issues = {} /\ nextId = 1 /\ calls = 0 /\ log = <<>>
    /\ sess = [s \in Sessions |-> IdleSession]
    /\ r2_public_baseurl = [s \in Sessions |-> BaseUrlOf(s)]

ParseTable ==
    /\ tableIn # None /\ tableOut = None
    /\ tableOut' = Some(parse_table(tableIn[1], 1, SectionTitles[1], 1, Url))
    /\ UNCHANGED <<tableIn, fileIn, fileOut, formIn, formOut, dbVars, crawlVars, pagerVars>>

SpecTable == InitTable /\ [][ParseTable]_vars

-----------------------------------------------------------------------------
(* Properties of the row parser                                             *)

\* the text of a td cell as a record value
CellText(cell) == Norm(JoinSpace(cell))

NonBlankRow(row) == \E i \in 1..Len(row) : CellText(row[i]) # <<>>

\* the rows of a list that are not all-empty, in order
NonBlankRows(rows) ==
    LET at == SortedSeq({i \in 1..Len(rows) : NonBlankRow(rows[i])})
    IN [n \in 1..Len(at) |-> rows[at[n]]]

\* the data row the j-th yielded item was made from: rows are yielded in
\* order and only leading rows are skipped
SourceRow(j) ==
    LET nb == NonBlankRows(tableIn[1].rows)
    IN nb[Len(nb) - Len(tableOut[1]) + j]

\* C13: for every row _parse_table emits, the number of column keys of the
\* record (the four provenance fields aside) equals the number of cells of
\* that row, whatever the headers: repeated names, empty names, fewer
\* headers than cells.
C13_KeysMatchCells ==
    tableOut # None =>
        \A j \in 1..Len(tableOut[1]) :
            Cardinality(tableOut[1][j].cols) = Len(SourceRow(j))

\* the key the shortfall rule gives cell i under the resolved headers H
ExpectedKey(H, i) ==
    IF i > Len(H) THEN <<"col_">> \o IntToDigits(i)
    ELSE IF H[i] = <<>> THEN <<"col_">> \o IntToDigits(i)
    ELSE H[i]

\* the cells of a row stored one after the other, cell i under ExpectedKey:
\* a key holds the text of the last cell stored under it
StoredInOrder(H, row) ==
    {<<ExpectedKey(H, i), CellText(row[i])>> :
        i \in {n \in 1..Len(row) :
                  \A m \in (n + 1)..Len(row) : ExpectedKey(H, m) # ExpectedKey(H, n)}}

\* C14: header-shortfall parsing never raises and stores cell i (1-based)
\* under col_i when i is beyond the header count or the header name at i is
\* empty, and under its header name otherwise; 5 headers and a 7-cell row
\* yield the keys col_6 and col_7.
C14_ShortfallKeys ==
    tableOut # None =>
        \A j \in 1..Len(tableOut[1]) :
            LET H == ResolveHeaders(tableIn[1])
                row == SourceRow(j)
                cols == tableOut[1][j].cols
            IN /\ cols = StoredInOrder(H, row)
               /\ (Len(H) = 5 /\ Len(row) = 7) =>
                      {<<"col_", "6">>, <<"col_", "7">>} \subseteq {q[1] : q \in cols}

\* five headers, a seven-cell row, and a record with col_6 and col_7
C14_Witness ==
    /\ tableOut # None
    /\ Len(ResolveHeaders(tableIn[1])) = 5
    /\ \E j \in 1..Len(tableOut[1]) :
           /\ Len(SourceRow(j)) = 7
           /\ {<<"Price">>, <<"col_", "6">>, <<"col_", "7">>}
                  \subseteq {q[1] : q \in tableOut[1][j].cols}


\* the first data row has as many cells as there are resolved headers and
\* its cell texts equal them one by one, ignoring case (both sides cleaned
\* as header text: whitespace collapsed, a trailing colon off)
RepeatsHeaders(H, rows) ==
    /\ rows # <<>>
    /\ Len(rows[1]) = Len(H)
    /\ \A i \in 1..Len(H) : Lower(clean_header(JoinSpace(rows[1][i]))) = Lower(H[i])

\* C15: _parse_table skips the first data row exactly when the resolved
\* header row and the first data row have the same cell count and equal text
\* cell by cell ignoring case; then a table without all-empty rows yields
\* one record fewer than it has data rows, and otherwise the table yields
\* one record per non-empty data row.
C15_DropFirstRule ==
    tableOut # None =>
        LET rows == tableIn[1].rows
            H == ResolveHeaders(tableIn[1])
            out == tableOut[1]
        IN IF RepeatsHeaders(H, rows)
           THEN /\ Len(out) = Len(NonBlankRows(Tail(rows)))
                /\ (\A i \in 1..Len(rows) : NonBlankRow(rows[i])) => Len(out) = Len(rows) - 1
           ELSE /\ Len(out) = Len(NonBlankRows(rows))
                /\ rows # <<>> /\ NonBlankRow(rows[1]) =>
                       out[1].cols = StoredInOrder(H, rows[1])

\* explicit headers Name and Status, a first row NAME / status: and one data
\* row: one record
C15_Witness ==
    /\ tableOut # None
    /\ tableIn[1].ths # <<>>
    /\ Len(tableIn[1].rows) = 2
    /\ tableIn[1].rows[1][1] = TextCell(<<"NAME">>)
    /\ NonBlankRow(tableIn[1].rows[2])
    /\ RepeatsHeaders(ResolveHeaders(tableIn[1]), tableIn[1].rows)
    /\ Len(tableOut[1]) = 1


\* most of the row's cell values contain letters
MostlyWords(row) ==
    2 * Cardinality({i \in 1..Len(row) : HasLetter(CellText(row[i]))}) > Len(row)

\* the first row has the cell count of every row after it
CountMatchesRest(rows) == \A i \in 2..Len(rows) : Len(rows[i]) = Len(rows[1])

PositionalKey(k) == Len(k) >= 2 /\ k[1] = "col_"

\* C16: when a table has no explicit header cells, _parse_table treats the
\* first data row as the header row only if most of its cell values contain
\* letters and its cell count matches the rows after it; a first row that
\* fails either condition is kept as data and emitted as a record (so every
\* non-empty row is emitted, under positional keys).
C16_HeaderFallback ==
    (tableOut # None /\ tableIn[1].ths = <<>> /\ tableIn[1].rows # <<>>) =>
        LET rows == tableIn[1].rows
            out == tableOut[1]
        IN ~(MostlyWords(rows[1]) /\ CountMatchesRest(rows)) =>
               /\ Len(out) = Len(NonBlankRows(rows))
               /\ \A j \in 1..Len(out) : \A q \in out[j].cols : PositionalKey(q[1])


-----------------------------------------------------------------------------
(* R2FilesPipeline.file_path on its own.  A URL is [origin, path, query],   *)
(* its path a token sequence ending in the file extension if it has one; a  *)
(* media request is [url, meta], meta holding label and ctx as lines 88-94  *)
(* build them.                                                             *)

\* str.strip(chars): the tokens of `drop` off both ends
RECURSIVE TrimTok(_, _)
TrimTok(s, drop) ==
    IF s # <<>> /\ Head(s) \in drop THEN TrimTok(Tail(s), drop)
    ELSE IF s # <<>> /\ s[Len(s)] \in drop THEN TrimTok(SubSeq(s, 1, Len(s) - 1), drop)
    ELSE s

\* re.sub(r"\s+", "-", s): every run of whitespace becomes one hyphen
RECURSIVE Dashes(_)
Dashes(s) ==
    IF s = <<>> THEN <<>>
    ELSE IF Head(s) \in WhiteTok THEN <<"-">> \o Dashes(LStripW(s))
    ELSE <<Head(s)>> \o Dashes(Tail(s))

\* slugify (lines 19-23); the tokens that are neither \w, \s nor "-" go
slugify(text) ==
    LET stripped == TrimTok(text, WhiteTok)
        kept == SelectSeq(stripped, LAMBDA t : t \notin {".", "!", "&", ":", "$", "/"})
        slug == TrimTok(Dashes(kept), {"-"})
    IN IF slug = <<>> THEN <<"unknown">> ELSE slug

\* guess_ext_from_url (lines 40-46): by the end of the lower-cased path
guess_ext_from_url(url) ==
    LET last == IF url.path = <<>> THEN "" ELSE url.path[Len(url.path)]
        low == IF last = ".PDF" THEN ".pdf" ELSE last
    IN IF low \in {".pdf", ".docx", ".xlsx", ".xls"} THEN low ELSE ".bin"

ProbeUrl(name, query) ==
    [origin |-> "https://www.bseindia.com", path |-> <<"/downloads/ipo/">> \o name,
     query |-> query]

\* the URLs of the model
ProbeUrls ==
    { ProbeUrl(<<"3252", ".pdf">>, ""), ProbeUrl(<<"4362", ".pdf">>, ""),
      ProbeUrl(<<"1", ".pdf">>, ""), ProbeUrl(<<"1", ".pdf">>, "?v=2"),
      ProbeUrl(<<"2", ".PDF">>, ""), ProbeUrl(<<"3">>, ""),
      ProbeUrl(<<"4", ".xlsx">>, ""), ProbeUrl(<<"5", ".docx">>, ""),
      ProbeUrl(<<"6", ".xls">>, "") }

\* hashlib.sha1(url.encode("utf-8")).hexdigest()[:6] (line 105), tabulated
\* for the URLs of the model
Sha1Hex6(url) ==
    CASE url = ProbeUrl(<<"3252", ".pdf">>, "") -> "53888c"
      [] url = ProbeUrl(<<"4362", ".pdf">>, "") -> "53888c"
      [] url = ProbeUrl(<<"1", ".pdf">>, "") -> "40df5e"
      [] url = ProbeUrl(<<"1", ".pdf">>, "?v=2") -> "c20983"
      [] url = ProbeUrl(<<"2", ".PDF">>, "") -> "9fb5cb"
      [] url = ProbeUrl(<<"3">>, "") -> "535785"
      [] url = ProbeUrl(<<"4", ".xlsx">>, "") -> "d00f0e"
      [] url = ProbeUrl(<<"5", ".docx">>, "") -> "0392a6"
      [] url = ProbeUrl(<<"6", ".xls">>, "") -> "288226"

\* file_path (lines 96-106)
file_path(request) ==
    LET ctx == request.meta.ctx
        stripped == TrimTok(request.meta.label, WhiteTok)
        label == IF stripped = <<>> THEN <<"document">> ELSE stripped
        company == IF ctx.company = <<>> THEN <<"Unknown">> ELSE ctx.company
        d == to_iso_date(IF ctx.dt = <<>> THEN None ELSE Some(ctx.dt))
        date_folder == IF d = None THEN <<"undated">>
                       ELSE <<d[1][1], "-", d[1][2], "-", d[1][3]>>
    IN <<"issues/">> \o slugify(company) \o <<"/">> \o date_folder \o <<"/">>
       \o slugify(label) \o <<"_", Sha1Hex6(request.url), guess_ext_from_url(request.url)>>

\* two media requests of one issue under one label: what get_media_requests
\* puts in meta (company, dt, label), and one URL each
InitFile ==
    /\ fileIn \in
          {Some(<<[url |-> u1, meta |-> m], [url |-> u2, meta |-> m]>>) :
              u1 \in ProbeUrls, u2 \in ProbeUrls,
              m \in {[label |-> l, ctx |-> [parent_type |-> "issue", company |-> c, dt |-> dt]] :
                        l \in {<<>>, <<"Prospectus">>, <<"!">>,
                               <<" ", "Red", " ", "\n", "Herring", "!", " ">>},
                        c \in {<<"Unknown">>, <<"Acme", " ", "&", " ", "Co", ".">>},
                        dt \in {<<>>, Date0105[1], Date0109[1]}}}
    /\ fileOut = None
    /\ tableIn = None /\ tableOut = None /\ formIn = None /\ formOut = None
    /\ pagerIn = <<>> /\ pagerOut = None
    /\ site = [name |-> "none", grids |-> <<>>]
    /\ pending = {} /\ emitted = {} /\ issued = {} /\ handled = {}
    /\ seen = <<>> /\ fallback = None
    /\ issues = {} /\ nextId = 1 /\ calls = 0 /\ log = <<>>
    /\ sess = [s \in Sessions |-> IdleSession]
    /\ r2_public_baseurl = [s \in Sessions |-> BaseUrlOf(s)]

FilePath ==
    /\ fileIn # None /\ fileOut = None
    /\ fileOut' = Some(<<file_path(fileIn[1][1]), file_path(fileIn[1][2])>>)
    /\ UNCHANGED <<fileIn, tableIn, tableOut, formIn, formOut, dbVars, crawlVars, pagerVars>>

SpecFile == InitFile /\ [][FilePath]_vars

\* C17: the stored path is a deterministic function of (entity, date,
\* label, URL): identical inputs give the identical path, and two distinct
\* URLs with the same entity, date and label give different paths.
C17_PathPerUrl ==
    fileOut # None =>
        /\ fileIn[1][1] = fileIn[1][2] => fileOut[1][1] = fileOut[1][2]
        /\ ( /\ fileIn[1][1].meta = fileIn[1][2].meta
             /\ fileIn[1][1].url # fileIn[1][2].url ) => fileOut[1][1] # fileOut[1][2]


-----------------------------------------------------------------------------
(* _make_postback_request on its own: responses with up to MaxHidden hidden *)
(* inputs                                                                  *)

MaxHidden == 3

\* hidden inputs: the state tokens (one of them in two versions), an event
\* field left over in the page, another ASP.NET field, an input with an
\* empty name
ProbeHidden ==
    { [name |-> "__VIEWSTATE", value |-> <<"v", "1">>],
      [name |-> "__VIEWSTATE", value |-> <<"v", "2">>],
      [name |-> "__VIEWSTATEGENERATOR", value |-> <<"G">>],
      [name |-> "__EVENTVALIDATION", value |-> <<>>],
      [name |-> "__EVENTTARGET", value |-> <<"old">>],
      [name |-> "__PREVIOUSPAGE", value |-> <<"pp">>],
      [name |-> "", value |-> <<"x">>] }

InitForm ==
    /\ formIn \in
          {Some([response |-> [url |-> u, hidden |-> h], event_target |-> t,
                 event_argument |-> a]) :
              u \in {Url, "https://www.bseindia.com/markets/PublicIssues/Other.aspx"},
              h \in SeqsUpTo(ProbeHidden, MaxHidden),
              t \in {TargetOf(1), <<"pager1">>},
              a \in {PageArg(2), NextArg}}
    /\ formOut = None
    /\ tableIn = None /\ tableOut = None /\ fileIn = None /\ fileOut = None
    /\ pagerIn = <<>> /\ pagerOut = None
    /\ site = [name |-> "none", grids |-> <<>>]
    /\ pending = {} /\ emitted = {} /\ issued = {} /\ handled = {}
    /\ seen = <<>> /\ fallback = None
    /\ issues = {} /\ nextId = 1 /\ calls = 0 /\ log = <<>>
    /\ sess = [s \in Sessions |-> IdleSession]
    /\ r2_public_baseurl = [s \in Sessions |-> BaseUrlOf(s)]

MakePostback ==
    /\ formIn # None /\ formOut = None
    /\ formOut' = Some(make_postback_request(formIn[1].response, formIn[1].event_target,
                                             formIn[1].event_argument,
                                             "_parse_section_page", NoKwargs))
    /\ UNCHANGED <<formIn, tableIn, tableOut, fileIn, fileOut, dbVars, crawlVars, pagerVars>>

SpecForm == InitForm /\ [][MakePostback]_vars

EventFields == {"__EVENTTARGET", "__EVENTARGUMENT"}

\* the hidden fields of a response: the names its hidden inputs bear
HiddenFields(hidden) == {hidden[i].name : i \in 1..Len(hidden)} \ {""}

\* the values a form holds under a name
FormValues(form, name) == {q[2] : q \in {r \in form : r[1] = name}}

\* C18: the form built by _make_postback_request targets the URL of the
\* response and holds every hidden field of that response with its value
\* unchanged, except __EVENTTARGET and __EVENTARGUMENT, which equal the given
\* target and argument; __VIEWSTATE, __VIEWSTATEGENERATOR and
\* __EVENTVALIDATION are always in the form.  (A field is a name; its value
\* is that of the first hidden input bearing the name.)
C18_FormCarriesHidden ==
    formOut # None =>
        LET response == formIn[1].response
            form == formOut[1].formdata
        IN /\ formOut[1].url = response.url
           /\ \A n \in HiddenFields(response.hidden) \ EventFields :
                  FormValues(form, n) = {FirstValue(response.hidden, n)}
           /\ FormValues(form, "__EVENTTARGET") = {formIn[1].event_target}
           /\ FormValues(form, "__EVENTARGUMENT") = {formIn[1].event_argument}
           /\ \A n \in Tokens3 : Cardinality(FormValues(form, n)) = 1
           /\ {q[1] : q \in form}
                  = Tokens3 \cup EventFields \cup HiddenFields(response.hidden)

\* a response with __VIEWSTATE, a further hidden field and a stale
\* __EVENTTARGET, and no __EVENTVALIDATION input
C18_Witness ==
    /\ formOut # None
    /\ {"__VIEWSTATE", "__PREVIOUSPAGE", "__EVENTTARGET"}
           = HiddenFields(formIn[1].response.hidden)
    /\ <<"__PREVIOUSPAGE", <<"pp">>>> \in formOut[1].formdata
    /\ <<"__EVENTVALIDATION", <<>>>> \in formOut[1].formdata
    /\ <<"__EVENTTARGET", <<"pager1">>>> \in formOut[1].formdata


-----------------------------------------------------------------------------
(* Properties of the next-chain                                             *)

\* what the handlers of a next-chain have handled for section k: the first
\* page in parse, the later ones in _parse_section_next
ChainHandled(k) ==
    {h \in handled : h.section_index = k
                     /\ h.callback \in {"parse", "_parse_section_next"}}

\* the pager of the response exposes next: the handler found the section's
\* table and that table renders a Next link
ExposesNext(h) == h.table # None /\ RendersNext(h)

\* the Next postbacks issued so far for section k
NextPostbacks(k) ==
    {e \in issued : /\ e.req.callback = "_parse_section_next"
                    /\ e.req.cb_kwargs.section_index = k}

\* C19: a next-chain issues a further Next postback after a response if and
\* only if that response's pager exposes next (exactly one then, none
\* otherwise); and once the chain has handled a response without next it
\* issues no further Next postback.
C19_NextIffExposed ==
    /\ [](\A k \in SectionIndexes : \A h \in ChainHandled(k) :
              Cardinality(NextPostbacksFrom(h)) = (IF ExposesNext(h) THEN 1 ELSE 0))
    /\ [][\A k \in SectionIndexes :
              (\E h \in ChainHandled(k) : ~ExposesNext(h))
                  => NextPostbacks(k)' = NextPostbacks(k)]_vars

\* a chain that went from page to page by Next and came to a response
\* without a Next link
C19_Witness ==
    /\ site.name # "none" /\ pending = {}
    /\ \E k \in SectionIndexes :
           /\ \E h \in ChainHandled(k) :
                  h.callback = "_parse_section_next" /\ ExposesNext(h)
           /\ \E h \in ChainHandled(k) :
                  h.callback = "_parse_section_next" /\ h.table # None /\ ~ExposesNext(h)


-----------------------------------------------------------------------------
(* Properties of the payload's pdfs list                                    *)

\* the stored paths of the downloaded files of the item that carry this URL
StoredPaths(item, u) ==
    LET files == OrEmptySeq(item.files)
    IN {files[j].path : j \in {n \in 1..Len(files) :
                                  /\ files[n].url = u /\ u # None /\ u[1] # ""
                                  /\ files[n].path # None /\ files[n].path[1] # ""}}

\* C20: record persistence neither waits for nor fails on a missing
\* attachment: the payload process_item builds has, for every pdf link of the
\* incoming item, exactly one pdfs entry, in the same order, whose cloud_key
\* is the stored path of the downloaded file with the same URL if there is
\* one at persistence time and null otherwise, and whose cloud_url is
\* non-null exactly when the key is there and a public base URL is set.
C20_PdfsFollowLinks ==
    \A s \in Sessions :
        sess[s].pc = "queried" =>
            LET item == sess[s].item[1]
                links == OrEmptySeq(item.pdf_links)
                pdfs == sess[s].obj[1].payload.pdfs
            IN /\ Len(pdfs) = Len(links)
               /\ \A i \in 1..Len(links) :
                      /\ pdfs[i].url = links[i].url /\ pdfs[i].label = links[i].label
                      /\ IF StoredPaths(item, links[i].url) = {}
                         THEN pdfs[i].cloud_key = None
                         ELSE pdfs[i].cloud_key \in StoredPaths(item, links[i].url)
                      /\ (pdfs[i].cloud_url # None)
                            <=> (pdfs[i].cloud_key # None /\ r2_public_baseurl[s] # "")
                      /\ pdfs[i].cloud_url # None =>
                            pdfs[i].cloud_url[1]
                                = <<r2_public_baseurl[s], "/", pdfs[i].cloud_key[1]>>

\* an item with two pdf links, one downloaded and one not, was persisted by
\* the process with a public base URL
C20_Witness ==
    \E j \in 1..Len(log) :
        /\ Returned(j) /\ log[j].session = "p2"
        /\ log[j].item.pdf_links = Some(<<PdfA, PdfB>>)
        /\ \E r \in issues :
               /\ Len(r.payload.pdfs) = 2
               /\ r.payload.pdfs[1].cloud_key = FileA.path
               /\ r.payload.pdfs[1].cloud_url # None
               /\ r.payload.pdfs[2].cloud_key = None
               /\ r.payload.pdfs[2].cloud_url = None


-----------------------------------------------------------------------------
(* Properties of the numeric dispatch                                       *)

\* the request whose response issued e
IssuerOf(e) == CHOOSE f \in issued : f.path = e.from

\* the page index a postback asks the server for, by its event argument
ArgPage(e) ==
    LET arg == FormGet(e.req.formdata, "__EVENTARGUMENT")
    IN DigitsVal(SubSeq(arg, 3, Len(arg)))

IsPrefix(s, t) == Len(s) < Len(t) /\ SubSeq(t, 1, Len(s)) = s

\* C21: NumericDispatch is monotonic-forward: a postback _parse_section_page
\* issues while handling page p asks for a page index strictly greater than
\* p, a numeric postback parse issues from page 1 asks for an index greater
\* than 1, and so along a NumericDispatch path (a request, the request issued
\* from its response, and so on) no lower or equal page comes again.
C21_MonotonicForward ==
    /\ \A e \in issued :
          /\ e.by = "_parse_section_page" =>
                 /\ ArgPage(e) = e.req.cb_kwargs.page_index
                 /\ ArgPage(e) > IssuerOf(e).req.cb_kwargs.page_index
          /\ (e.by = "parse" /\ e.req.callback = "_parse_section_page") =>
                 /\ ArgPage(e) = e.req.cb_kwargs.page_index
                 /\ ArgPage(e) > 1
    /\ \A e1, e2 \in issued :
          (NumericDispatch(e1) /\ NumericDispatch(e2) /\ IsPrefix(e1.path, e2.path))
              => e2.req.cb_kwargs.page_index > e1.req.cb_kwargs.page_index

\* _parse_section_page, handling a page that still shows a link to a lower
\* page, has issued a postback
C21_Witness ==
    \E e \in issued :
        /\ NumericDispatch(e) /\ e.by = "_parse_section_page"
        /\ \E h \in handled :
               /\ h.path = e.from /\ h.pager # None
               /\ \E q \in Range(h.pager[1].pages) : q < h.page_index


-----------------------------------------------------------------------------
(* Properties of the next-chain's seen set                                  *)

\* the numeric postbacks the next-chain of section k issued itself
ChainNumeric(k) ==
    {e \in issued : /\ e.by = "_parse_section_next"
                    /\ e.req.callback = "_parse_section_page"
                    /\ e.req.cb_kwargs.section_index = k}

\* C22: within a next-chain the numeric sub-dispatch is guarded by the
\* chain's seen set: a numeric postback for index p is issued only if p was
\* not in seen, p is in seen afterwards, the page being handled is never
\* dispatched, hence at most one numeric postback per index; seen starts as
\* {1} and only grows.
C22_SeenGuardsChain ==
    /\ [](\A k \in SectionIndexes :
             /\ \A e \in ChainNumeric(k) :
                    /\ ArgPage(e) = e.req.cb_kwargs.page_index
                    /\ ArgPage(e) \in seen[k]
                    /\ ArgPage(e) # IssuerOf(e).req.cb_kwargs.page_index
             /\ \A e1, e2 \in ChainNumeric(k) : ArgPage(e1) = ArgPage(e2) => e1 = e2
             /\ seen[k] # {} => 1 \in seen[k])
    /\ [][\A k \in SectionIndexes :
             /\ seen[k] \subseteq seen'[k]
             /\ (seen[k] = {} /\ seen'[k] # {}) => seen'[k] = {1}
             /\ \A e \in ChainNumeric(k)' \ ChainNumeric(k) :
                    ArgPage(e) \notin seen[k] /\ ArgPage(e) \in seen'[k]]_vars

\* a chain dispatched a page it saw, and a later response of the chain
\* showed that page again
C22_Witness ==
    \E k \in SectionIndexes : \E e \in ChainNumeric(k) :
        \E h \in handled :
            /\ h.section_index = k /\ h.callback = "_parse_section_next"
            /\ h.path # e.from /\ IsPrefix(e.from, h.path)
            /\ h.pager # None /\ ArgPage(e) \in Range(h.pager[1].pages)
            /\ ArgPage(e) # h.page_index


-----------------------------------------------------------------------------
(* Properties of the table choice                                           *)

\* the first n elements of a sequence, or all of it
FirstN(s, n) == SubSeq(s, 1, IF Len(s) < n THEN Len(s) ELSE n)

\* the first four tables after the first heading of the record's section
FirstFour(h) ==
    LET doc == ResponseOf(h).doc
        at == HeadingAt(doc, SectionTitles[h.section_index])
    IN IF at = {} THEN <<>> ELSE FirstN(TablesAfter(doc, Min(at)), 4)

\* the first table of a sequence that satisfies Test, as an Optional
FirstWith(tables, Test(_)) ==
    LET at == {i \in 1..Len(tables) : Test(tables[i])}
    IN IF at = {} THEN None ELSE Some(tables[Min(at)])

RowsAndPager(t) == t.rows # <<>> /\ t.hrefs # <<>>
RowsOnly(t) == t.rows # <<>>

\* C23: _pick_section_table inspects only the first 4 tables that follow the
\* first matching heading; if one of them has data rows and pager links it
\* returns the first such table, even when a rows-only table precedes it,
\* and if none has pager links it returns the first of them with data rows.
C23_FirstFourChoice ==
    \A h \in handled :
        LET four == FirstFour(h) IN
        /\ FirstWith(four, RowsAndPager) # None => h.table = FirstWith(four, RowsAndPager)
        /\ (FirstWith(four, RowsAndPager) = None /\ FirstWith(four, RowsOnly) # None)
               => h.table = FirstWith(four, RowsOnly)


-----------------------------------------------------------------------------
(* Properties of the pager reader                                           *)

\* the links of the probed table that the regular expression parses
Parsing == {i \in 1..Len(pagerIn) : PostbackMatch(pagerIn[i])}

\* the argument of link i selects page n: "Page$" followed by the digits of n
Selects(i, n) ==
    LET arg == Unquote(pagerIn[i].arg) IN
    \E j \in 1..(Len(arg) - 2) :
        /\ arg[j] = "Page" /\ arg[j + 1] = "$"
        /\ DigitRun(SubSeq(arg, j + 2, Len(arg))) # <<>>
        /\ DigitsVal(DigitRun(SubSeq(arg, j + 2, Len(arg)))) = n

Selected == {n \in 0..99 : \E i \in Parsing : Selects(i, n)}

StrictlyAscending(s) == \A i, j \in 1..Len(s) : i < j => s[i] < s[j]

\* C24: _extract_pager returns the target of the first postback link that
\* parses, the page list as the strictly ascending duplicate-free list of
\* every N carried by a page-select argument, has_next true exactly when some
\* link's argument denotes next, and the page list [1] when no page-select
\* argument is found.
C24_PagerResult ==
    pagerOut # None =>
        LET out == pagerOut[1] IN
        /\ out.target = IF Parsing = {} THEN None
                        ELSE Some(Unquote(pagerIn[Min(Parsing)].target))
        /\ StrictlyAscending(out.pages)
        /\ Selected # {} => Range(out.pages) = Selected
        /\ Selected = {} => out.pages = <<1>>
        /\ out.has_next <=>
               \E i \in Parsing : \E j \in 1..(Len(pagerIn[i].arg) - 2) :
                   SubSeq(Unquote(pagerIn[i].arg), j, j + 2) = <<"Page", "$", "Next">>

\* links Page$2, Page$1 (quoted), Page$2 again were read as pages [1, 2]
C24_Witness ==
    /\ pagerOut # None /\ Len(pagerIn) = 3
    /\ pagerIn[1].arg = <<"Page", "$", "2">> /\ pagerIn[3] = pagerIn[1]
    /\ pagerOut[1].pages = <<1, 2>>
    /\ pagerOut[1].target = Some(<<"pager1">>)


-----------------------------------------------------------------------------
(* Properties of the posted form state                                      *)

\* the response whose handler issued request e
IssuingResponse(e) == Respond(site, IssuerOf(e).req, e.from)

\* the hidden fields of a response that are not overwritten by the event
StateFields(response) == HiddenFields(response.hidden) \ EventFields

\* the postbacks of a crawl
Postbacks == {e \in issued : e.by # "start"}

\* C25: every postback request carries the hidden form state harvested from
\* the response whose handler issued it, never state from an earlier
\* response: a next postback at step k posts the tokens of the step k-1
\* response, a numeric postback those of the page that showed its index.
C25_FormFromIssuer ==
    \A e \in Postbacks :
        /\ e.req.url = IssuingResponse(e).url
        /\ \A n \in StateFields(IssuingResponse(e)) :
               FormValues(e.req.formdata, n) = {FirstValue(IssuingResponse(e).hidden, n)}
        /\ \A f \in issued :
               (IsPrefix(f.path, e.from)
                  /\ FirstValue(Respond(site, f.req, f.path).hidden, "__VIEWSTATE")
                       # FirstValue(IssuingResponse(e).hidden, "__VIEWSTATE"))
               => FormGet(e.req.formdata, "__VIEWSTATE")
                      # FirstValue(Respond(site, f.req, f.path).hidden, "__VIEWSTATE")

\* a next postback and a numeric postback were issued from a response whose
\* view state differs from that of the first GET
C25_Witness ==
    \E e1, e2 \in Postbacks :
        /\ e1.from = e2.from /\ e1.from # StartEntry.path
        /\ e1.req.callback = "_parse_section_next"
        /\ e2.req.callback = "_parse_section_page"
        /\ FirstValue(IssuingResponse(e1).hidden, "__VIEWSTATE")
               # FirstValue(Respond(site, StartEntry.req, StartEntry.path).hidden, "__VIEWSTATE")


-----------------------------------------------------------------------------
(* Termination of the crawl of a section                                    *)

\* section k's grid has N pages, renders only indices in 1..N and renders no
\* Next link on its last page
Exhaustible(k) ==
    /\ site.name # "none"
    /\ site.grids[k].style # "sticky"
    /\ \A p \in 1..site.grids[k].npages :
          /\ LinkPages(site.grids[k], p) \subseteq 1..site.grids[k].npages
          /\ ~NextLink(site.grids[k], site.grids[k].npages)

\* section k's grid renders a Next link on every response
Endless(k) ==
    /\ site.name # "none"
    /\ site.grids[k].style # "absent"
    /\ \A p \in 1..site.grids[k].npages : NextLink(site.grids[k], p)

ParseHandled == \E h \in handled : h.callback = "parse"
SectionIssued(k) == {e \in issued : e.req.cb_kwargs.section_index = k}
SectionInFlight(k) == {e \in pending : e.req.cb_kwargs.section_index = k}

\* the largest page count of the site's grids
SitePages == CHOOSE n \in 0..9 :
                 /\ \A k \in SectionIndexes : site.grids[k].npages <= n
                 /\ \E k \in SectionIndexes : site.grids[k].npages = n

\* C26: for a section with N pages whose pagers expose only indices in 1..N
\* and whose last page exposes no next, under fair delivery of responses the
\* crawl of that section issues finitely many requests (none beyond the
\* pages of the site) and reaches, for good, a state with no request of the
\* section in flight; for a pager that exposes next on every response the
\* next-chain never terminates: one of its requests is always in flight and
\* it passes every page index the model follows.
C26_Termination ==
    /\ [](\A k \in SectionIndexes : Exhaustible(k) =>
              \A e \in SectionIssued(k) : e.req.cb_kwargs.page_index <= SitePages)
    /\ \A k \in SectionIndexes :
          Exhaustible(k) ~> [](ParseHandled /\ SectionInFlight(k) = {})
    /\ [](\A k \in SectionIndexes : (Endless(k) /\ ParseHandled) =>
              \E e \in SectionInFlight(k) : e.req.callback = "_parse_section_next")
    /\ \A k \in SectionIndexes :
          Endless(k) ~> \E e \in SectionInFlight(k) :
                            /\ e.req.callback = "_parse_section_next"
                            /\ e.req.cb_kwargs.page_index > MaxPageIndex


-----------------------------------------------------------------------------
(* Coverage of a paged section                                              *)

\* section k has N >= 2 pages and every page but the last renders Next
Chained(k) ==
    /\ site.name # "none"
    /\ site.grids[k].npages >= 2
    /\ \A p \in 1..(site.grids[k].npages - 1) : NextLink(site.grids[k], p)

\* a handler of section k got the section's grid showing page p, took it for
\* page index p and emitted its row
Parsed(k, p) ==
    /\ \E h \in handled :
          /\ h.section_index = k /\ h.page_index = p
          /\ h.table # None
          /\ h.table[1].rows = GridTable(site.grids[k], k, p).rows
          /\ h.table[1].doc = h.path
    /\ \E item \in emitted :
          /\ item.section = k /\ item.page_index = p
          /\ <<DigitChar(k), DigitChar(p)>> \in {q[2] : q \in item.cols}

\* C27: for a section with N pages where every page but the last exposes
\* next and each page exposes only a window of numeric links, every page
\* index in 1..N is eventually parsed at least once, whatever the window:
\* once no response remains to be delivered, every page has been parsed.
C27_FullCoverage ==
    ~CanDeliver =>
        \A k \in SectionIndexes :
            Chained(k) => \A p \in 1..site.grids[k].npages : Parsed(k, p)

-----------------------------------------------------------------------------
(* Who holds a chain's seen set                                             *)

\* the Next postbacks of section k in flight
NextInFlight(k) ==
    {e \in pending : e.req.callback = "_parse_section_next"
                       /\ e.req.cb_kwargs.section_index = k}

\* the requests in flight whose cb_kwargs carry section k's seen set
HoldersOf(k) == {e \in pending : e.req.cb_kwargs.seen = Some(k)}

\* the requests whose handler ran in this step
Delivered == pending \ pending'

\* C28: for each section at most one next-chain postback is in flight at any
\* time, and the chain's seen set is read and written only by the
\* _parse_section_next handlers of that chain, never by _parse_section_page:
\* it is handed from one Next request to the next, so that no two handlers
\* hold the same seen set at once.
C28_SeenHasOneHolder ==
    /\ [](\A k \in SectionIndexes :
             /\ Cardinality(NextInFlight(k)) <= 1
             /\ HoldersOf(k) = NextInFlight(k)
             /\ \A e \in issued : e.req.callback = "_parse_section_page"
                                     => e.req.cb_kwargs.seen = None)
    /\ [][\A k \in SectionIndexes :
             seen'[k] # seen[k] =>
                 \/ seen[k] = {} /\ \E e \in Delivered : e.req.callback = "parse"
                 \/ \E e \in Delivered : e \in NextInFlight(k)]_vars

\* while the chain's Next postback is in flight, numeric postbacks that the
\* chain issued for the same section are in flight too
C28_Witness ==
    \E k \in SectionIndexes :
        /\ Cardinality(NextInFlight(k)) = 1
        /\ Cardinality(seen[k]) >= 3
        /\ \E e \in pending : /\ e.by = "_parse_section_next"
                              /\ e.req.callback = "_parse_section_page"
                              /\ e.req.cb_kwargs.section_index = k


-----------------------------------------------------------------------------
(* Order of delivery and the records emitted                                *)

\* what the handler of a postback e picks when it finds `slot` in
\* self._fallback_table_chosen (lines 94, 122)
PickFor(e, slot) ==
    pick_section_table(Respond(site, e.req, e.path).doc, e.req.cb_kwargs.section_title, slot)

\* the items that handler emits (lines 98-99, 126-127)
EmitsFor(e, slot) ==
    IF PickFor(e, slot).table = None THEN {}
    ELSE Range(parse_table(PickFor(e, slot).table[1], e.req.cb_kwargs.section_index,
                           e.req.cb_kwargs.section_title, e.req.cb_kwargs.page_index,
                           Respond(site, e.req, e.path).url))

\* the (section, page_index, row) records of a set of items
Records(items) == {<<item.section, item.page_index, item.cols>> : item \in items}

\* the records of delivering e1 and then e2
RecordsInOrder(e1, e2) ==
    Records(EmitsFor(e1, fallback) \cup EmitsFor(e2, PickFor(e1, fallback).slot))

\* the postbacks in flight whose response can be delivered next
Deliverable == {e \in pending : e.req.callback # "parse" /\ WithinBound(e)}

\* C29: the set of records emitted does not depend on the order in which
\* the responses in flight arrive: whichever of two responses in flight is
\* delivered first, the two handlers emit the same (section, page_index,
\* row) records, and each handler emits what EmitsFor says.
C29_OrderIndependent ==
    /\ [](\A e1, e2 \in Deliverable : RecordsInOrder(e1, e2) = RecordsInOrder(e2, e1))
    /\ [][\A e \in Delivered \cap Deliverable :
              emitted' = emitted \cup EmitsFor(e, fallback)]_vars

-----------------------------------------------------------------------------
(* The table of a response                                                  *)

\* C30: section/table bindings are recomputed per page fetch: the table that
\* _pick_section_table returns for a response is an element of that same
\* response's document, so the rows emitted with page_index p and the
\* postbacks built from that response never come from a table of an earlier
\* response.
C30_TableOfSameResponse ==
    \A h \in handled :
        h.table # None =>
            /\ h.table[1].doc = h.path
            /\ \E i \in 1..Len(ResponseOf(h).doc) :
                  /\ ResponseOf(h).doc[i].kind = "t"
                  /\ ResponseOf(h).doc[i].table = h.table[1]

=============================================================================
